---- MODULE Spec2Model ----
(***************************************************************************)
(* The verification reconciliation engine of jaime-tiktok-bot/index.js:    *)
(* pending / verified records, the temporary code store, the in-progress   *)
(* set, the foreground check handler (verify_tiktok_check) and the         *)
(* background sweep (runBackgroundVerificationCheck).                       *)
(*                                                                         *)
(* JavaScript runs one handler at a time and switches handlers only at an  *)
(* await.  Every action below is the code a handler runs between two       *)
(* awaits.  A Redis command and a file write take effect when they are     *)
(* issued (the client sends commands in order), the handler resumes in a   *)
(* later step.                                                             *)
(***************************************************************************)
EXTENDS Integers, Sequences, FiniteSets, TLC

VARIABLES
    redis,                  \* TRUE when REDIS_URL is configured (index.js:58-75)
    pendingVerifications,   \* the in-memory Map (index.js:78)
    redisPending,           \* keys tiktok_verify:pending:<id> of the durable store
    filePending,            \* pending-verifications.json
    tempVerificationCodes,  \* global.tempVerificationCodes (index.js:1986)
    activeVerifications,    \* the in-progress Set (index.js:230)
    verifiedUsers,          \* verified list per guild, in the backend in use
    guildConfigs,           \* guild -> TRUE when a verified role is configured
    memberRoles,            \* guild -> members that hold the verified role
    check,                  \* the verify_tiktok_check handlers in flight
    sweep,                  \* the runBackgroundVerificationCheck runs in flight
    submitting,             \* verify_tiktok_link_modal handlers between store and cleanup
    starting,               \* the verify_tiktok_start handler in flight, per member
    cleanup,                \* the /cleanup command in flight
    nextCode,               \* the next fresh code number
    now,                    \* Date.now()
    granted,                \* members a check or a sweep gave the role since their last submit
    event,                  \* what the last step sent out: a reply, a role grant, a DM
    fetched,                \* what fetchTikTokBio returned to the last step
    modal,                  \* the link modal and its handler before the store, per member
    callArgs,               \* the arguments of a function that is studied by itself
    callResult,             \* what the function returned for them
    serverPrefixes,         \* the prefix cache, per guild (index.js:233)
    issuedPrefixes,         \* the prefixes of the codes generated so far, per guild
    verifiedList,           \* the stored verified lists: guild -> array of entries
    adding,                 \* the calls of addVerifiedUser in flight
    lastAdded               \* the handle of the last call that has saved, per member

\* the call of a function that is studied by itself
pureVars == <<callArgs, callResult>>

\* the code prefixes
prefixVars == <<serverPrefixes, issuedPrefixes>>

\* the verified lists as arrays
listVars == <<verifiedList, adding, lastAdded>>

\* the state that the steps of the check, the background run and the commands
\* leave alone
otherVars == <<modal, pureVars, prefixVars, listVars, listVars>>

vars == <<redis, pendingVerifications, redisPending, filePending,
          tempVerificationCodes, activeVerifications, verifiedUsers, guildConfigs,
          memberRoles, check, sweep, submitting, starting, cleanup, nextCode, now,
          granted, event, fetched, otherVars>>

(***************************************************************************)
(* Bounds of the model.                                                    *)
(***************************************************************************)
\* codes issued in the concurrency specification
MaxIssuedMain == 1
\* codes issued in the operations specification
MaxIssuedOps == 1
\* codes issued in the code-history specification
MaxIssuedCodes == 8
\* the sweep's maxRounds (12 in the source) and attemptsPerRound (10), scaled down
MaxRounds == 2
AttemptsPerRound == 2
\* link-modal handlers of one member in flight at once
MaxSubmitting == 2
\* the clock stops here
MaxTime == 1
\* codes issued in the two-guild specification
MaxIssuedGuilds == 2
\* codes issued in the storage specification
MaxIssuedStore == 2
\* pieces of a text typed into the link modal
MaxInputLen == 3
\* pieces of a bio given to the matcher, and candidate codes
MaxBioLen == 3
MaxCandidates == 2
\* pieces of the name of an owner or of a guild
MaxNameLen == 3
\* parts of a profile page
MaxHtmlLen == 3
\* the values of Math.random() that are told apart
RandomSteps == 20000

(***************************************************************************)
(* Program constants.                                                      *)
(***************************************************************************)
\* if (previousCodes.length > 5) previousCodes.pop()
HistoryLen == 5
\* const maxAttempts = 3
maxAttempts == 3
\* const validUsernameRegex = /^[a-zA-Z0-9_.]{2,24}$/
MinUsername == 2
MaxUsername == 24
\* clean.substring(0, 10)
PrefixLen == 10
\* Math.floor(10000 + Math.random() * 90000)
CodeBase == 10000
CodeSpan == 90000

Users == {"u1", "u2"}
Guilds == {"g1", "g2"}
\* two handles that pass the format test of index.js:2270, as texts of the
\* pieces listed with the link modal below
h1 == <<"a", "a">>
h2 == <<"a23", "a">>
Handles == {h1, h2}
Instances == {1, 2}
Sweeps == {1, 2}
\* the empty text
NoHandle == <<>>
NoCode == 0

\* the value of Map.get / redis.get / JSON file lookup for a missing key
NoRecord ==
    [username |-> NoHandle, code |-> NoCode, previousCodes |-> <<>>,
     guildId |-> "none", createdAt |-> 0]

NoTemp == [code |-> NoCode, previousCodes |-> <<>>, guildId |-> "none"]

Min(S) == CHOOSE x \in S : \A y \in S : x <= y

(***************************************************************************)
(* Matcher: index.js:2097-2112 and 988-1001.  A bio is modelled by the set *)
(* of codes that occur in it (upper-cased, typo variant included).         *)
(***************************************************************************)
AllCodes(record) == <<record.code>> \o record.previousCodes

\* a matcher that finds the current code in every bio
Matcher_any(bio, record) == record.code

Matcher(bio, record) ==
    LET allCodes == AllCodes(record)
        hits == {k \in 1..Len(allCodes) : allCodes[k] \in bio}
    IN  IF hits = {} THEN NoCode ELSE allCodes[Min(hits)]

\* the codes a bio can show to a check of this record
Accepted(record) == {AllCodes(record)[k] : k \in 1..Len(AllCodes(record))}

(***************************************************************************)
(* The test of one code against the text of a bio (index.js:2096-2112 and  *)
(* 940-954).  A bio and a code are sequences of pieces: the brand token    *)
(* and its misspelling in both cases, two numbers, other text.             *)
(***************************************************************************)
BioPieces == {"JAIME", "jaime", "JAMIE", "jamie", "-1", "-2", "x"}

\* an upper-casing that leaves the text as it is
ToUpperCase_same(s) == s

\* String.prototype.toUpperCase
ToUpperCase(s) ==
    [k \in 1..Len(s) |->
        CASE s[k] = "jaime" -> "JAIME"
          [] s[k] = "jamie" -> "JAMIE"
          [] s[k] = "x" -> "X"
          [] OTHER -> s[k]]

\* String.prototype.includes
Includes(s, part) ==
    \E i \in 0..(Len(s) - Len(part)) : SubSeq(s, i + 1, i + Len(part)) = part

\* codeUpper.replace('JAIME', 'JAMIE'): the first occurrence is replaced
TypoVariant(codeUpper) ==
    LET at == {k \in 1..Len(codeUpper) : codeUpper[k] = "JAIME"}
    IN  IF at = {} THEN codeUpper ELSE [codeUpper EXCEPT ![Min(at)] = "JAMIE"]

\* index.js:2103-2107: bioUpper.includes(codeUpper) || bioUpper.includes(typoVariant)
CodeInBio(bio, code) ==
    LET bioUpper == ToUpperCase(bio)
        codeUpper == ToUpperCase(code)
        typoVariant == TypoVariant(codeUpper)
    IN  Includes(bioUpper, codeUpper) \/ Includes(bioUpper, typoVariant)

\* index.js:2099-2112: the first of allCodes that passes the test, or none
MatchedCode(bio, allCodes) ==
    LET hits == {k \in 1..Len(allCodes) : CodeInBio(bio, allCodes[k])}
    IN  IF hits = {} THEN <<>> ELSE allCodes[Min(hits)]

\* the texts of the codes: a prefix and a number
CodeTexts == {<<prefix, num>> : prefix \in {"JAIME", "JAMIE"}, num \in {"-1", "-2"}}

\* the bios and the candidate lists (the current code, then the history)
MatcherInputs ==
    [bio : UNION {[1..n -> BioPieces] : n \in 0..MaxBioLen},
     allCodes : {c \in UNION {[1..n -> CodeTexts] : n \in 1..MaxCandidates} :
                    \A j, k \in 1..Len(c) : j # k => c[j] # c[k]}]

(***************************************************************************)
(* generateCode and getNamePrefix (index.js:564-595).  A name is a sequence *)
(* of pieces: a lower-case letter, an upper-case letter, a digit, any      *)
(* other character, white space, and a run of nine lower-case letters.     *)
(***************************************************************************)
NamePieces == {"a", "B", "7", "!", " ", "a9"}

\* the characters of a name, one by one
RECURSIVE Characters(_)
Characters(name) ==
    IF name = <<>> THEN <<>>
    ELSE (IF Head(name) = "a9" THEN [k \in 1..9 |-> "a"] ELSE <<Head(name)>>)
            \o Characters(Tail(name))

\* name.split(/\s+/)[0]
FirstToken(chars) ==
    LET spaces == {k \in 1..Len(chars) : chars[k] = " "}
    IN  IF spaces = {} THEN chars ELSE SubSeq(chars, 1, Min(spaces) - 1)

\* .replace(/[^a-zA-Z0-9]/g, '').toUpperCase()
Clean(chars) ==
    LET kept == SelectSeq(chars, LAMBDA c : c \in {"a", "B", "7"})
    IN  [k \in 1..Len(kept) |-> IF kept[k] = "a" THEN "A" ELSE kept[k]]

Verify == <<"V", "E", "R", "I", "F", "Y">>

\* a prefix that is not cut
getNamePrefix_whole(name) ==
    LET clean == Clean(FirstToken(Characters(name)))
    IN  IF clean = <<>> THEN Verify ELSE clean

\* index.js:564-568: clean.substring(0, 10) || 'VERIFY'
getNamePrefix(name) ==
    LET clean == Clean(FirstToken(Characters(name)))
        cut == SubSeq(clean, 1, IF Len(clean) < PrefixLen THEN Len(clean) ELSE PrefixLen)
    IN  IF cut = <<>> THEN Verify ELSE cut

\* the values of Math.random(), in units of 1 / RandomSteps
Randoms == {0, 1, RandomSteps \div 2, RandomSteps - 1}

\* index.js:593-594: Math.floor(10000 + Math.random() * 90000) after the prefix
generateCode(name, random) ==
    [prefix |-> getNamePrefix(name),
     num |-> CodeBase + (random * CodeSpan) \div RandomSteps]

\* the names of owners and guilds
Names == UNION {[1..n -> NamePieces] : n \in 0..MaxNameLen}

(***************************************************************************)
(* fetchTikTokBio (index.js:682-817): the outcomes the callers tell apart. *)
(*   "null"     return null                       (HTTP status not ok)     *)
(*   "nobio"    {bio: null, ...}                  (transport error, no bio)*)
(*   "notFound" {accountNotFound: true}                                    *)
(*   "empty"    {bio: '', emptyBio: true}                                  *)
(*   "bio"      {bio: text}                                                *)
(***************************************************************************)
Bios(maxCode) == {{}} \cup {{c} : c \in 1..maxCode}

FetchResults(maxCode) ==
    [kind : {"null", "nobio", "notFound", "empty"}, bio : {{}}]
        \cup [kind : {"bio"}, bio : Bios(maxCode)]

\* no fetch has answered in this step
NoResult == [kind |-> "none", bio |-> {}]

(***************************************************************************)
(* Persistence helpers.                                                    *)
(***************************************************************************)
\* redisSavePending (index.js:317-326) within pendingVerifications.set + save
\* (index.js:2322-2329): returns the new <<memory, redis, file>>
StorePending(u, data) ==
    LET mem == [pendingVerifications EXCEPT ![u] = data]
    IN  IF redis
        THEN <<mem, [redisPending EXCEPT ![u] = data], filePending>>
        ELSE <<mem, redisPending, mem>>

\* a deletion that deletes nothing
DeletePendingSaved_kept(u) == <<pendingVerifications, redisPending, filePending>>

\* pendingVerifications.delete + redisDeletePending / savePendingVerifications
\* (index.js:2143-2148, 2174-2179, 1048-1053)
DeletePendingSaved(u) ==
    LET mem == [pendingVerifications EXCEPT ![u] = NoRecord]
    IN  IF redis
        THEN <<mem, [redisPending EXCEPT ![u] = NoRecord], filePending>>
        ELSE <<mem, redisPending, mem>>

\* pendingVerifications.delete + redisDeletePending, the file is not rewritten
\* (index.js:930-933, 1394-1397, 2455-2458)
DeletePendingRedisOnly(u) ==
    LET mem == [pendingVerifications EXCEPT ![u] = NoRecord]
    IN  IF redis
        THEN <<mem, [redisPending EXCEPT ![u] = NoRecord], filePending>>
        ELSE <<mem, redisPending, filePending>>

\* a save that loses the new entry
AddVerified_lost(users, g, u, handle) == users

\* addVerifiedUser after its load (index.js:517-538): users is the loaded copy
AddVerified(users, g, u, handle) == [users EXCEPT ![g][u] = handle]

\* removeVerifiedUser (index.js:543-555)
RemoveVerified(users, g, u) == [users EXCEPT ![g][u] = NoHandle]

(***************************************************************************)
(* What a step sends out.                                                  *)
(***************************************************************************)
NoEvent == [kind |-> "none", user |-> "none", text |-> "none"]
\* interaction.reply / editReply of a check handler
Reply(u, text) == [kind |-> "reply", user |-> u, text |-> text]
\* member.roles.add by a check or by a sweep
Grant(u, by) == [kind |-> "grant", user |-> u, text |-> by]
\* member.send by a sweep
Dm(u) == [kind |-> "dm", user |-> u, text |-> "verified"]
\* interaction.editReply of a link-modal handler
ModalReply(u, text) == [kind |-> "modal", user |-> u, text |-> text]
\* the pending record of a submitted handle has been stored
Submitted(u, h) == [kind |-> "submit", user |-> u, text |-> h]
\* interaction.reply of a verify_tiktok_start handler
StartReply(u, text) == [kind |-> "start", user |-> u, text |-> text]
\* console.log of a sweep
Log(u, text) == [kind |-> "log", user |-> u, text |-> text]
\* interaction.editReply to the operator of a command
OperatorReply(text) == [kind |-> "operator", user |-> "none", text |-> text]

\* the step resumes from an await other than a fetch
NoFetch == fetched' = NoResult

Quiet == event' = NoEvent /\ NoFetch /\ UNCHANGED granted

(***************************************************************************)
(* Handler-local state.                                                    *)
(***************************************************************************)
NoUsers == [g \in Guilds |-> [u \in Users |-> NoHandle]]

\* a verify_tiktok_check handler that is not running
IdleCheck ==
    [pc |-> "idle", guild |-> "none", record |-> NoRecord, attempt |-> 0,
     lastBio |-> FALSE, emptyBio |-> FALSE, users |-> NoUsers]

\* a verify_tiktok_start handler that is not running
IdleStart ==
    [pc |-> "idle", code |-> NoCode, guild |-> "none", record |-> NoRecord,
     prefix |-> <<>>]

\* no link modal is open for the member and no handler of one is before its
\* store; input is the text typed into the modal, username the parsed handle
IdleModal == [pc |-> "idle", input |-> <<>>, username |-> <<>>]

\* a /cleanup command that is not running
IdleCleanup == [pc |-> "idle", guild |-> "none", list |-> <<>>, idx |-> 0]

\* a background run that is not running
IdleSweep ==
    [pc |-> "idle", list |-> <<>>, idx |-> 0, round |-> 0, attempt |-> 0,
     lastBio |-> FALSE, users |-> NoUsers]

\* no call of addVerifiedUser
IdleAdd ==
    [pc |-> "idle", guild |-> "none", user |-> "none", handle |-> NoHandle,
     users |-> <<>>]

\* the state of a process that has started and serves no handler yet
InitHandlers ==
    /\ tempVerificationCodes = [u \in Users |-> NoTemp]
    /\ activeVerifications = {}
    /\ verifiedUsers = NoUsers
    /\ guildConfigs = [g \in Guilds |-> FALSE]
    /\ memberRoles = [g \in Guilds |-> {}]
    /\ check = [u \in Users |-> [i \in Instances |-> IdleCheck]]
    /\ sweep = [s \in Sweeps |-> IdleSweep]
    /\ submitting = [u \in Users |-> 0]
    /\ starting = [u \in Users |-> IdleStart]
    /\ cleanup = IdleCleanup
    /\ now = 0
    /\ granted = {}
    /\ event = NoEvent
    /\ fetched = NoResult
    /\ modal = [u \in Users |-> IdleModal]
    /\ serverPrefixes = [g \in Guilds |-> <<>>]
    /\ issuedPrefixes = [g \in Guilds |-> {}]
    /\ verifiedList = [g \in Guilds |-> <<>>]
    /\ adding = [c \in Instances |-> IdleAdd]
    /\ lastAdded = NoUsers

\* the engine's state, which the steps that only read it leave alone
engineVars ==
    <<redis, pendingVerifications, redisPending, filePending, tempVerificationCodes,
      activeVerifications, verifiedUsers, guildConfigs, memberRoles, check, sweep,
      submitting, starting, cleanup, nextCode, now>>

\* no function is studied by itself
NoCall == callArgs = <<>> /\ callResult = <<>>

\* the call of a function with arguments args
InitCall(args) ==
    /\ redis \in BOOLEAN
    /\ pendingVerifications = [u \in Users |-> NoRecord]
    /\ redisPending = [u \in Users |-> NoRecord]
    /\ filePending = [u \in Users |-> NoRecord]
    /\ nextCode = 1
    /\ InitHandlers
    /\ callArgs \in args
    /\ callResult = <<>>

\* the function returns result
Return(result) ==
    /\ callResult = <<>>
    /\ callResult' = <<result>>
    /\ UNCHANGED <<engineVars, granted, event, fetched, modal, callArgs, prefixVars, listVars>>

\* the first start of the bot: the stores are empty
Init ==
    /\ redis \in BOOLEAN
    /\ pendingVerifications = [u \in Users |-> NoRecord]
    /\ redisPending = [u \in Users |-> NoRecord]
    /\ filePending = [u \in Users |-> NoRecord]
    /\ nextCode = 1
    /\ InitHandlers
    /\ NoCall

(***************************************************************************)
(* Button verify_tiktok_start (index.js:1948-2002): issue a code.          *)
(* starting[u].pc names the await the handler of member u is at.           *)
(***************************************************************************)
\* index.js:1956-1964: refused while a check is in progress, else generateCode
verify_tiktok_start(u, g) ==
    /\ starting[u].pc = "idle"
    /\ IF u \in activeVerifications
       THEN /\ event' = StartReply(u, "inProgress")
            /\ UNCHANGED <<cleanup, starting, nextCode>>
       ELSE /\ starting' = [starting EXCEPT
                               ![u] = [IdleStart EXCEPT
                                          !.pc = "code", !.code = nextCode, !.guild = g]]
            /\ nextCode' = nextCode + 1
            /\ event' = NoEvent
    /\ NoFetch
    /\ UNCHANGED <<otherVars, cleanup, granted, redis, pendingVerifications, redisPending, filePending,
                   tempVerificationCodes, activeVerifications, verifiedUsers,
                   guildConfigs, memberRoles, check, sweep, submitting, now>>

\* the display name of the owner of a guild and the name of the guild; the
\* owner of g2 has named the guild after themselves
OwnerName == [g \in Guilds |-> IF g = "g1" THEN <<"B", "a">> ELSE <<"a", "7">>]
GuildName == [g \in Guilds |-> IF g = "g1" THEN <<"a9", " ", "B">> ELSE <<"a", "7">>]

\* the prefix has been resolved and generateCode returns a code with it
\* (index.js:592-594)
CodeWithPrefix(u, prefix) ==
    /\ starting' = [starting EXCEPT ![u] = [@ EXCEPT !.pc = "code", !.prefix = prefix]]
    /\ issuedPrefixes' = [issuedPrefixes EXCEPT ![starting[u].guild] = @ \cup {prefix}]

\* index.js:571-578: getServerPrefix answers from the cache, or asks for the
\* owner of the guild
get_server_prefix(u) ==
    /\ starting[u].pc = "code"
    /\ starting[u].prefix = <<>>
    /\ IF serverPrefixes[starting[u].guild] # <<>>
       THEN CodeWithPrefix(u, serverPrefixes[starting[u].guild])
       ELSE /\ starting' = [starting EXCEPT ![u] = [@ EXCEPT !.pc = "owner"]]
            /\ UNCHANGED issuedPrefixes
    /\ Quiet
    /\ UNCHANGED <<redis, pendingVerifications, redisPending, filePending,
                   tempVerificationCodes, activeVerifications, verifiedUsers,
                   guildConfigs, memberRoles, check, sweep, submitting, cleanup,
                   nextCode, now, modal, pureVars, serverPrefixes, listVars>>

\* index.js:578-587: guild.fetchOwner has answered or has thrown; the prefix
\* of the owner's name, or of the guild's name, is put into the cache
fetch_owner(u, ok) ==
    /\ starting[u].pc = "owner"
    /\ LET g == starting[u].guild
           prefix == getNamePrefix(IF ok THEN OwnerName[g] ELSE GuildName[g])
       IN  /\ serverPrefixes' = [serverPrefixes EXCEPT ![g] = prefix]
           /\ CodeWithPrefix(u, prefix)
    /\ Quiet
    /\ UNCHANGED <<redis, pendingVerifications, redisPending, filePending,
                   tempVerificationCodes, activeVerifications, verifiedUsers,
                   guildConfigs, memberRoles, check, sweep, submitting, cleanup,
                   nextCode, now, modal, pureVars, listVars>>

\* a history that drops nothing
PushHistory_unbounded(record) ==
    IF record = NoRecord \/ record.code = NoCode
    THEN record.previousCodes
    ELSE <<record.code>> \o record.previousCodes

\* index.js:1971-1977: previousCodes.unshift(existingRecord.code), keep five
PushHistory(record) ==
    IF record = NoRecord \/ record.code = NoCode
    THEN record.previousCodes
    ELSE LET pushed == <<record.code>> \o record.previousCodes
         IN  IF Len(pushed) > HistoryLen
             THEN SubSeq(pushed, 1, Len(pushed) - 1)
             ELSE pushed

\* unshift and pop change the array of the record held in memory, which every
\* holder of that object sees: the Map entry, the entries of a background run's
\* list (index.js:905) and the record of a check handler (index.js:2039)
AliasedList(list, u, old, new) ==
    [k \in 1..Len(list) |->
        IF list[k].user = u /\ list[k].record = old
        THEN [list[k] EXCEPT !.record = new]
        ELSE list[k]]

AliasedCheck(handlers, old, new) ==
    [i \in Instances |->
        IF handlers[i].pc \notin {"idle", "lookup"} /\ handlers[i].record = old
        THEN [handlers[i] EXCEPT !.record = new]
        ELSE handlers[i]]

\* index.js:1971-1987: the history is pushed and the code is put on record;
\* inMemory tells whether existing is the object the Map holds
start_store(u, existing, inMemory) ==
    LET previousCodes == PushHistory(existing)
        mutated == [existing EXCEPT !.previousCodes = previousCodes]
    IN  /\ tempVerificationCodes' =
              [tempVerificationCodes EXCEPT
                  ![u] = [code |-> starting[u].code, previousCodes |-> previousCodes,
                          guildId |-> starting[u].guild]]
        /\ IF inMemory /\ existing # NoRecord
           THEN /\ pendingVerifications' = [pendingVerifications EXCEPT ![u] = mutated]
                /\ sweep' = [s \in DOMAIN sweep |->
                               [sweep[s] EXCEPT
                                   !.list = AliasedList(@, u, existing, mutated)]]
                /\ check' = [check EXCEPT ![u] = AliasedCheck(@, existing, mutated)]
           ELSE UNCHANGED <<pendingVerifications, sweep, check>>
        /\ starting' = [starting EXCEPT ![u] = IdleStart]
        /\ event' = StartReply(u, "code")

\* index.js:1964-1987: generateCode has settled; the record in memory is used,
\* or Redis is asked for one
start_issue(u) ==
    /\ starting[u].pc = "code"
    /\ IF pendingVerifications[u] = NoRecord /\ redis
       THEN /\ starting' = [starting EXCEPT
                               ![u] = [@ EXCEPT !.pc = "lookup",
                                                !.record = redisPending[u]]]
            /\ event' = NoEvent
            /\ UNCHANGED <<tempVerificationCodes, pendingVerifications, sweep, check>>
       ELSE start_store(u, pendingVerifications[u], TRUE)
    /\ NoFetch
    /\ UNCHANGED <<otherVars, cleanup, granted, redis, redisPending, filePending, activeVerifications,
                   verifiedUsers, guildConfigs, memberRoles, submitting, nextCode, now>>

\* index.js:1969-1987: redisGetPending has answered
start_lookup(u) ==
    /\ starting[u].pc = "lookup"
    /\ start_store(u, starting[u].record, FALSE)
    /\ NoFetch
    /\ UNCHANGED <<otherVars, cleanup, granted, redis, redisPending, filePending, activeVerifications,
                   verifiedUsers, guildConfigs, memberRoles, submitting, nextCode, now>>

(***************************************************************************)
(* Modal verify_tiktok_link_modal (index.js:2232-2357): submit the handle. *)
(* The handle h has passed the format check and the account check of       *)
(* index.js:2247-2299, which keep no state.                                *)
(***************************************************************************)
\* a submit that makes up a code of its own
PendingData_fresh(u, h) ==
    [username |-> h,
     code |-> nextCode,
     previousCodes |-> tempVerificationCodes[u].previousCodes,
     guildId |-> tempVerificationCodes[u].guildId,
     createdAt |-> now]

\* index.js:2312-2318
PendingData(u, h) ==
    [username |-> h,
     code |-> tempVerificationCodes[u].code,
     previousCodes |-> tempVerificationCodes[u].previousCodes,
     guildId |-> tempVerificationCodes[u].guildId,
     createdAt |-> now]

\* index.js:2301-2329, up to the await of the save; without a code on record
\* the member is told to start again (index.js:2303-2309)
link_modal_store(u, h) ==
    /\ submitting[u] < MaxSubmitting
    /\ IF tempVerificationCodes[u] = NoTemp
       THEN /\ event' = ModalReply(u, "startAgain")
            /\ UNCHANGED <<pendingVerifications, redisPending, filePending,
                           submitting, granted>>
       ELSE /\ LET stored == StorePending(u, PendingData(u, h))
               IN  /\ pendingVerifications' = stored[1]
                   /\ redisPending' = stored[2]
                   /\ filePending' = stored[3]
            /\ submitting' = [submitting EXCEPT ![u] = @ + 1]
            /\ granted' = granted \ {u}
            /\ event' = Submitted(u, h)
    /\ modal' = [modal EXCEPT ![u] = IdleModal]
    /\ NoFetch
    /\ UNCHANGED <<pureVars, prefixVars, listVars, cleanup, starting, redis, tempVerificationCodes, activeVerifications, verifiedUsers,
                   guildConfigs, memberRoles, check, sweep, nextCode, now>>

\* index.js:2331-2356, after the awaits: tempVerificationCodes.delete
link_modal_finish(u) ==
    /\ submitting[u] > 0
    /\ submitting' = [submitting EXCEPT ![u] = @ - 1]
    /\ tempVerificationCodes' = [tempVerificationCodes EXCEPT ![u] = NoTemp]
    /\ Quiet
    /\ UNCHANGED <<otherVars, cleanup, starting, redis, pendingVerifications, redisPending, filePending,
                   activeVerifications, verifiedUsers, guildConfigs, memberRoles,
                   check, sweep, nextCode, now>>

(***************************************************************************)
(* addVerifiedUser on the stored arrays (index.js:511-540), as the check   *)
(* handler, the background run and /manual-verify call it.                 *)
(***************************************************************************)
\* users[guildId].findIndex(u => u.discordId === discordId), 0 for -1
FindIndex(list, discordId) ==
    LET found == {i \in DOMAIN list : list[i].discordId = discordId}
    IN  IF found = {} THEN 0 ELSE Min(found)

\* index.js:521-536: the entry of the member is replaced, or one is pushed
AddToList(list, discordId, tiktokUsername) ==
    LET existing == FindIndex(list, discordId)
        userData == [discordId |-> discordId, tiktokUsername |-> tiktokUsername]
    IN  IF existing > 0 THEN [list EXCEPT ![existing] = userData]
        ELSE Append(list, userData)

\* index.js:514: loadVerifiedUsers has read the store
add_load(c, g, u, h) ==
    /\ adding[c].pc = "idle"
    /\ adding' = [adding EXCEPT ![c] =
                     [pc |-> "save", guild |-> g, user |-> u, handle |-> h,
                      users |-> verifiedList]]
    /\ Quiet
    /\ UNCHANGED <<engineVars, modal, pureVars, prefixVars, verifiedList, lastAdded>>

\* index.js:516-538: the loaded lists with the member's entry are saved
add_save(c) ==
    /\ adding[c].pc = "save"
    /\ LET a == adding[c]
       IN  /\ verifiedList' =
                 [a.users EXCEPT ![a.guild] = AddToList(@, a.user, a.handle)]
           /\ lastAdded' = [lastAdded EXCEPT ![a.guild][a.user] = a.handle]
    /\ adding' = [adding EXCEPT ![c] = IdleAdd]
    /\ Quiet
    /\ UNCHANGED <<engineVars, modal, pureVars, prefixVars>>

(***************************************************************************)
(* The stores across a restart of the process.                             *)
(***************************************************************************)
\* loadPendingVerifications (index.js:370-399): with Redis configured the
\* records are those redisGetAllPending returns, none when Redis does not
\* answer (index.js:358-361), and the function returns; the file is read
\* only without Redis
loadPendingVerifications(answers) ==
    IF redis
    THEN IF answers THEN redisPending ELSE [u \in Users |-> NoRecord]
    ELSE filePending

\* the process ends and starts again (index.js:1170-1178): memory holds what
\* loadPendingVerifications has loaded, no handler runs
restart(answers) ==
    /\ pendingVerifications' = loadPendingVerifications(answers)
    /\ tempVerificationCodes' = [u \in Users |-> NoTemp]
    /\ activeVerifications' = {}
    /\ check' = [u \in Users |-> [i \in Instances |-> IdleCheck]]
    /\ sweep' = [s \in Sweeps |-> IdleSweep]
    /\ submitting' = [u \in Users |-> 0]
    /\ starting' = [u \in Users |-> IdleStart]
    /\ cleanup' = IdleCleanup
    /\ modal' = [u \in Users |-> IdleModal]
    /\ serverPrefixes' = [g \in Guilds |-> <<>>]
    /\ event' = Log("none", "restart")
    /\ NoFetch
    /\ UNCHANGED <<redis, redisPending, filePending, verifiedUsers, guildConfigs,
                   memberRoles, nextCode, now, granted, pureVars, issuedPrefixes,
                   listVars>>

\* index.js:2301-2329 when redis.set throws: redisSavePending catches the
\* error and returns false (index.js:322-325), the handler logs and goes on
\* (index.js:2325-2329)
link_modal_store_failed(u, h) ==
    /\ redis
    /\ submitting[u] < MaxSubmitting
    /\ tempVerificationCodes[u] # NoTemp
    /\ pendingVerifications' = [pendingVerifications EXCEPT ![u] = PendingData(u, h)]
    /\ submitting' = [submitting EXCEPT ![u] = @ + 1]
    /\ granted' = granted \ {u}
    /\ event' = Submitted(u, h)
    /\ modal' = [modal EXCEPT ![u] = IdleModal]
    /\ NoFetch
    /\ UNCHANGED <<pureVars, prefixVars, listVars, cleanup, starting, redis, redisPending,
                   filePending, tempVerificationCodes, activeVerifications,
                   verifiedUsers, guildConfigs, memberRoles, check, sweep,
                   nextCode, now>>

(***************************************************************************)
(* The text of the link modal (index.js:2233-2276).  A text is a sequence   *)
(* of pieces, one for each kind of substring the patterns of the handler    *)
(* tell apart:                                                              *)
(*   "a"           one character of [a-zA-Z0-9_.]                            *)
(*   "a23"         23 such characters                                        *)
(*   "undefined"   the word undefined                                        *)
(*   "@"  " "  "!" an at sign, white space, any other character              *)
(*   "https://"  "tiktok.com/"                                               *)
(*   "https"  "tiktok.com"   what [a-zA-Z0-9_.]+ takes of the two above      *)
(***************************************************************************)
Pieces == {"a", "a23", "undefined", "@", " ", "!", "https://", "tiktok.com/"}

\* the pieces made of characters of [a-zA-Z0-9_.] only
WordPieces == {"a", "a23", "undefined", "https", "tiktok.com"}

PieceLength(c) ==
    CASE c = "a23" -> 23
      [] c = "undefined" -> 9
      [] c = "https" -> 5
      [] c = "tiktok.com" -> 10
      [] OTHER -> 1

RECURSIVE TextLength(_)
TextLength(s) == IF s = <<>> THEN 0 ELSE PieceLength(Head(s)) + TextLength(Tail(s))

\* the texts a member can type
Texts == UNION {[1..n -> Pieces] : n \in 0..MaxInputLen}

RECURSIVE TrimStart(_)
TrimStart(s) == IF s # <<>> /\ Head(s) = " " THEN TrimStart(Tail(s)) ELSE s

RECURSIVE TrimEnd(_)
TrimEnd(s) ==
    IF s # <<>> /\ s[Len(s)] = " " THEN TrimEnd(SubSeq(s, 1, Len(s) - 1)) ELSE s

\* String.prototype.trim
Trim(s) == TrimEnd(TrimStart(s))

\* .replace(/^@/, '')
StripAt(s) == IF s # <<>> /\ Head(s) = "@" THEN Tail(s) ELSE s

\* .replace(/.../gi, '') of one piece
RemoveAll(s, c) == SelectSeq(s, LAMBDA x : x # c)

\* what ([a-zA-Z0-9_.]+) takes from position j on
RECURSIVE Capture(_, _)
Capture(s, j) ==
    IF j > Len(s) THEN <<>>
    ELSE IF s[j] \in {"a", "a23", "undefined"} THEN <<s[j]>> \o Capture(s, j + 1)
    ELSE IF s[j] = "https://" THEN <<"https">>
    ELSE IF s[j] = "tiktok.com/" THEN <<"tiktok.com">>
    ELSE <<>>

\* the positions where /tiktok\.com\/@([a-zA-Z0-9_.]+)/ matches (index.js:2252)
UrlMatches(s) ==
    {i \in 1..Len(s) : /\ i + 1 <= Len(s)
                       /\ s[i] = "tiktok.com/"
                       /\ s[i + 1] = "@"
                       /\ Capture(s, i + 2) # <<>>}

\* index.js:2248-2264: the username of a trimmed text
ParseUsername(linkInput) ==
    IF UrlMatches(linkInput) # {}
    THEN Capture(linkInput, Min(UrlMatches(linkInput)) + 2)
    ELSE Trim(StripAt(RemoveAll(RemoveAll(StripAt(linkInput), "https://"),
                                "tiktok.com/")))

\* a format test without the upper limit
ValidUsername_long(username) ==
    /\ username # <<>>
    /\ username # <<"undefined">>
    /\ \A k \in 1..Len(username) : username[k] \in WordPieces
    /\ TextLength(username) >= MinUsername

\* index.js:2270-2271: the format test
ValidUsername(username) ==
    /\ username # <<>>
    /\ username # <<"undefined">>
    /\ \A k \in 1..Len(username) : username[k] \in WordPieces
    /\ TextLength(username) \in MinUsername..MaxUsername

\* index.js:2005-2031: the member says the code is in the bio; the modal is
\* shown and the member types a text
verify_tiktok_added(u, input) ==
    /\ modal[u].pc = "idle"
    /\ IF tempVerificationCodes[u] = NoTemp
       THEN /\ event' = StartReply(u, "startAgain")
            /\ UNCHANGED modal
       ELSE /\ modal' = [modal EXCEPT ![u] = [IdleModal EXCEPT !.pc = "typed",
                                                                !.input = input]]
            /\ event' = NoEvent
    /\ NoFetch
    /\ UNCHANGED <<engineVars, pureVars, prefixVars, listVars, granted>>

\* index.js:2232-2279: the submitted text is parsed and tested, up to deferReply
link_modal_submit(u) ==
    /\ modal[u].pc = "typed"
    /\ LET linkInput == Trim(modal[u].input)
           username == ParseUsername(linkInput)
       IN  IF linkInput = <<>>
           THEN /\ modal' = [modal EXCEPT ![u] = IdleModal]
                /\ event' = ModalReply(u, "empty")
           ELSE IF ~ValidUsername(username)
           THEN /\ modal' = [modal EXCEPT ![u] = IdleModal]
                /\ event' = ModalReply(u, "invalidFormat")
           ELSE /\ modal' = [modal EXCEPT ![u] = [@ EXCEPT !.pc = "defer",
                                                         !.username = username]]
                /\ event' = NoEvent
    /\ NoFetch
    /\ UNCHANGED <<engineVars, pureVars, prefixVars, listVars, granted>>

\* index.js:2279-2281: deferReply has settled, checkTikTokAccountExists sends
\* its request (index.js:638)
link_modal_defer(u) ==
    /\ modal[u].pc = "defer"
    /\ modal' = [modal EXCEPT ![u] = [@ EXCEPT !.pc = "exists"]]
    /\ Quiet
    /\ UNCHANGED <<engineVars, pureVars, prefixVars, listVars>>

\* index.js:2281-2329: checkTikTokAccountExists has answered; a missing
\* account goes to findSimilarUsernames, an existing one to the store
link_modal_exists(u, accountExists) ==
    /\ modal[u].pc = "exists"
    /\ IF accountExists
       THEN link_modal_store(u, modal[u].username)
       ELSE /\ modal' = [modal EXCEPT ![u] = [@ EXCEPT !.pc = "similar"]]
            /\ Quiet
            /\ UNCHANGED <<engineVars, pureVars, prefixVars, listVars>>

\* index.js:2287-2298: findSimilarUsernames has answered, the member is told
\* that the account was not found
link_modal_similar(u) ==
    /\ modal[u].pc = "similar"
    /\ modal' = [modal EXCEPT ![u] = IdleModal]
    /\ event' = ModalReply(u, "notFound")
    /\ NoFetch
    /\ UNCHANGED <<engineVars, pureVars, prefixVars, listVars, granted>>

\* Date.now() advances
Tick ==
    /\ now < MaxTime
    /\ now' = now + 1
    /\ Quiet
    /\ UNCHANGED <<otherVars, cleanup, starting, redis, pendingVerifications, redisPending, filePending,
                   tempVerificationCodes, activeVerifications, verifiedUsers,
                   guildConfigs, memberRoles, check, sweep, submitting, nextCode>>


(***************************************************************************)
(* Button verify_tiktok_check (index.js:2034-2226): the foreground check.  *)
(* check[u][i] is handler i of member u; its pc names the await it is at.  *)
(***************************************************************************)
\* a guard that lets every click through
AlreadyActive_off(u) == FALSE

\* index.js:2058
AlreadyActive(u) == u \in activeVerifications

\* finally { activeVerifications.delete(...) } (index.js:2222-2225)
ClearActive(u) == activeVerifications \ {u}

\* index.js:2048-2066: no record, check in progress, or mark active and go on
check_guard(u, i, g, record) ==
    IF record = NoRecord
    THEN /\ check' = [check EXCEPT ![u][i] = IdleCheck]
         /\ event' = Reply(u, "noRecord")
         /\ UNCHANGED activeVerifications
    ELSE IF AlreadyActive(u)
    THEN /\ check' = [check EXCEPT ![u][i] = IdleCheck]
         /\ event' = Reply(u, "inProgress")
         /\ UNCHANGED activeVerifications
    ELSE /\ check' = [check EXCEPT ![u][i] =
                        [IdleCheck EXCEPT
                            !.pc = "defer", !.guild = g, !.record = record]]
         /\ event' = NoEvent
         /\ activeVerifications' = activeVerifications \cup {u}

\* index.js:2039-2047: the click; a miss in memory awaits redisGetPending
check_click(u, i, g) ==
    /\ check[u][i].pc = "idle"
    /\ IF pendingVerifications[u] = NoRecord /\ redis
       THEN /\ check' = [check EXCEPT ![u][i] =
                           [IdleCheck EXCEPT
                               !.pc = "lookup", !.guild = g,
                               !.record = redisPending[u]]]
            /\ event' = NoEvent
            /\ UNCHANGED activeVerifications
       ELSE check_guard(u, i, g, pendingVerifications[u])
    /\ NoFetch
    /\ UNCHANGED <<otherVars, cleanup, starting, granted, redis, pendingVerifications, redisPending, filePending,
                   tempVerificationCodes, verifiedUsers, guildConfigs, memberRoles,
                   sweep, submitting, nextCode, now>>

\* index.js:2044-2066: redisGetPending has answered
check_lookup(u, i) ==
    /\ check[u][i].pc = "lookup"
    /\ LET record == check[u][i].record
       IN  /\ pendingVerifications' =
                 IF record # NoRecord
                 THEN [pendingVerifications EXCEPT ![u] = record]
                 ELSE pendingVerifications
           /\ check_guard(u, i, check[u][i].guild, record)
    /\ NoFetch
    /\ UNCHANGED <<otherVars, cleanup, starting, granted, redis, redisPending, filePending, tempVerificationCodes,
                   verifiedUsers, guildConfigs, memberRoles, sweep, submitting,
                   nextCode, now>>

\* index.js:2068-2070: deferReply and editReply, outside the try block; when one
\* of them throws the handler ends in the catch of index.js:2420
check_defer(u, i) ==
    /\ check[u][i].pc = "defer"
    /\ \E ok \in BOOLEAN :
         /\ check' = [check EXCEPT ![u][i] =
                        IF ok THEN [@ EXCEPT !.pc = "fetch", !.attempt = 1]
                        ELSE IdleCheck]
         /\ event' = IF ok THEN NoEvent ELSE Reply(u, "error")
    /\ NoFetch
    /\ UNCHANGED <<otherVars, cleanup, starting, granted, redis, pendingVerifications, redisPending, filePending,
                   tempVerificationCodes, activeVerifications, verifiedUsers,
                   guildConfigs, memberRoles, sweep, submitting, nextCode, now>>

\* index.js:2156-2170 and 2215-2221: the answer of a check that matched nothing
UnmatchedReply(lastBio, emptyBio) ==
    IF emptyBio /\ ~lastBio THEN "emptyBio"
    ELSE IF ~lastBio THEN "unreadable"
    ELSE "pending"

\* index.js:2082-2179: one fetch of the loop, and the code after the loop up to
\* its first await
check_fetch(u, i) ==
    /\ check[u][i].pc = "fetch"
    /\ \E result \in FetchResults(nextCode - 1) :
         LET c == check[u][i]
             lastBio == c.lastBio \/ result.kind = "bio"
             emptyBio == c.emptyBio \/ result.kind = "empty"
             matched == IF result.kind = "bio"
                        THEN Matcher(result.bio, c.record) ELSE NoCode
             deleted == DeletePendingSaved(u)
         IN  /\ fetched' = result
             /\ IF result.kind = "null"
                THEN \* result.accountNotFound of null throws; finally runs
                     /\ check' = [check EXCEPT ![u][i] = IdleCheck]
                     /\ event' = Reply(u, "error")
                     /\ activeVerifications' = ClearActive(u)
                     /\ UNCHANGED <<pendingVerifications, redisPending, filePending>>
                ELSE IF result.kind = "notFound"
                THEN /\ check' = [check EXCEPT ![u][i] = [c EXCEPT !.pc = "reply"]]
                     /\ event' = Reply(u, "notFound")
                     /\ pendingVerifications' = deleted[1]
                     /\ redisPending' = deleted[2]
                     /\ filePending' = deleted[3]
                     /\ UNCHANGED activeVerifications
                ELSE IF matched # NoCode
                THEN /\ check' = [check EXCEPT ![u][i] =
                                    [c EXCEPT !.pc = "member", !.lastBio = lastBio,
                                              !.emptyBio = emptyBio]]
                     /\ event' = NoEvent
                     /\ pendingVerifications' = deleted[1]
                     /\ redisPending' = deleted[2]
                     /\ filePending' = deleted[3]
                     /\ UNCHANGED activeVerifications
                ELSE IF c.attempt < maxAttempts
                THEN /\ check' = [check EXCEPT ![u][i] =
                                    [c EXCEPT !.attempt = @ + 1, !.lastBio = lastBio,
                                              !.emptyBio = emptyBio]]
                     /\ event' = NoEvent
                     /\ UNCHANGED <<pendingVerifications, redisPending, filePending,
                                    activeVerifications>>
                ELSE /\ check' = [check EXCEPT ![u][i] =
                                    [c EXCEPT !.pc = "reply", !.lastBio = lastBio,
                                              !.emptyBio = emptyBio]]
                     /\ event' = Reply(u, UnmatchedReply(lastBio, emptyBio))
                     /\ UNCHANGED <<pendingVerifications, redisPending, filePending,
                                    activeVerifications>>
    /\ UNCHANGED <<otherVars, cleanup, starting, granted, redis, tempVerificationCodes, verifiedUsers, guildConfigs,
                   memberRoles, sweep, submitting, nextCode, now>>

\* index.js:2181-2192: guild.members.fetch, then the role lookup
check_member(u, i) ==
    /\ check[u][i].pc = "member"
    /\ \E ok \in BOOLEAN :
         IF ~ok
         THEN /\ check' = [check EXCEPT ![u][i] = IdleCheck]
              /\ event' = Reply(u, "error")
              /\ activeVerifications' = ClearActive(u)
         ELSE /\ check' = [check EXCEPT ![u][i] =
                             IF guildConfigs[@.guild]
                             THEN [@ EXCEPT !.pc = "grant"]
                             ELSE [@ EXCEPT !.pc = "reply"]]
              /\ event' = IF guildConfigs[check[u][i].guild]
                          THEN NoEvent ELSE Reply(u, "noRole")
              /\ UNCHANGED activeVerifications
    /\ NoFetch
    /\ UNCHANGED <<otherVars, cleanup, starting, granted, redis, pendingVerifications, redisPending, filePending,
                   tempVerificationCodes, verifiedUsers, guildConfigs, memberRoles,
                   sweep, submitting, nextCode, now>>

\* a grant that goes on to save the verified record when roles.add has thrown
check_grant_unchecked(u, i) ==
    /\ check[u][i].pc = "grant"
    /\ \E ok \in BOOLEAN :
         /\ check' = [check EXCEPT ![u][i] =
                        [@ EXCEPT !.pc = "save", !.users = verifiedUsers]]
         /\ memberRoles' = IF ok
                           THEN [memberRoles EXCEPT ![check[u][i].guild] = @ \cup {u}]
                           ELSE memberRoles
         /\ granted' = IF ok THEN granted \cup {u} ELSE granted
         /\ event' = IF ok THEN Grant(u, "check") ELSE NoEvent
         /\ UNCHANGED activeVerifications
    /\ NoFetch
    /\ UNCHANGED <<otherVars, cleanup, starting, redis, pendingVerifications, redisPending, filePending,
                   tempVerificationCodes, verifiedUsers, guildConfigs, sweep,
                   submitting, nextCode, now>>

\* index.js:2194-2197 and 514: member.roles.add, then addVerifiedUser loads
check_grant(u, i) ==
    /\ check[u][i].pc = "grant"
    /\ \E ok \in BOOLEAN :
         IF ~ok
         THEN /\ check' = [check EXCEPT ![u][i] = IdleCheck]
              /\ event' = Reply(u, "error")
              /\ activeVerifications' = ClearActive(u)
              /\ UNCHANGED <<memberRoles, granted>>
         ELSE /\ check' = [check EXCEPT ![u][i] =
                             [@ EXCEPT !.pc = "save", !.users = verifiedUsers]]
              /\ memberRoles' = [memberRoles EXCEPT ![check[u][i].guild] = @ \cup {u}]
              /\ granted' = granted \cup {u}
              /\ event' = Grant(u, "check")
              /\ UNCHANGED activeVerifications
    /\ NoFetch
    /\ UNCHANGED <<otherVars, cleanup, starting, redis, pendingVerifications, redisPending, filePending,
                   tempVerificationCodes, verifiedUsers, guildConfigs, sweep,
                   submitting, nextCode, now>>

\* index.js:517-538 and 2204-2214: addVerifiedUser saves the loaded list
check_save(u, i) ==
    /\ check[u][i].pc = "save"
    /\ LET c == check[u][i]
       IN  /\ verifiedUsers' = AddVerified(c.users, c.guild, u, c.record.username)
           /\ check' = [check EXCEPT ![u][i] =
                          [c EXCEPT !.pc = "reply", !.users = NoUsers]]
    /\ event' = Reply(u, "verified")
    /\ NoFetch
    /\ UNCHANGED <<otherVars, cleanup, starting, granted, redis, pendingVerifications, redisPending, filePending,
                   tempVerificationCodes, activeVerifications, guildConfigs,
                   memberRoles, sweep, submitting, nextCode, now>>

\* the editReply that ends the handler has settled (index.js:2149, 2158, 2166,
\* 2188, 2212, 2218); finally runs
check_reply(u, i) ==
    /\ check[u][i].pc = "reply"
    /\ check' = [check EXCEPT ![u][i] = IdleCheck]
    /\ activeVerifications' = ClearActive(u)
    /\ Quiet
    /\ UNCHANGED <<otherVars, cleanup, starting, redis, pendingVerifications, redisPending, filePending,
                   tempVerificationCodes, verifiedUsers, guildConfigs, memberRoles,
                   sweep, submitting, nextCode, now>>

(***************************************************************************)
(* runBackgroundVerificationCheck (index.js:883-1079): the sweep.          *)
(* sweep[s].list is the array taken at index.js:905, idx the entry the     *)
(* for loop is at.                                                         *)
(***************************************************************************)
\* index.js:886-903: records of Redis that memory does not hold are imported
SyncFromRedis ==
    [u \in Users |->
        IF redis /\ pendingVerifications[u] = NoRecord
        THEN redisPending[u] ELSE pendingVerifications[u]]

\* index.js:905: Array.from(pendingVerifications.entries()), in any order
Entries(mem) ==
    LET held == {u \in Users : mem[u] # NoRecord}
    IN  {list \in [1..Cardinality(held) -> [user : held, record : {mem[u] : u \in held}]] :
            /\ \A k \in DOMAIN list : list[k].record = mem[list[k].user]
            /\ \A k, l \in DOMAIN list : k # l => list[k].user # list[l].user}

\* a run that ends after its first entry
NextEntry_abort(sw) ==
    IF sw.idx = 0 /\ Len(sw.list) > 0
    THEN [sw EXCEPT !.pc = "fetch", !.idx = 1, !.round = 1, !.attempt = 1,
                    !.lastBio = FALSE, !.users = NoUsers]
    ELSE IdleSweep

\* the for loop of index.js:908 moves to its next entry, or the run ends
NextEntry(sw) ==
    IF sw.idx < Len(sw.list)
    THEN [sw EXCEPT !.pc = "fetch", !.idx = @ + 1, !.round = 1, !.attempt = 1,
                    !.lastBio = FALSE, !.users = NoUsers]
    ELSE IdleSweep

sweep_start(s) ==
    /\ sweep[s].pc = "idle"
    /\ pendingVerifications' = SyncFromRedis
    /\ \E list \in Entries(SyncFromRedis) :
         sweep' = [sweep EXCEPT ![s] = NextEntry([IdleSweep EXCEPT !.list = list])]
    /\ Quiet
    /\ UNCHANGED <<otherVars, cleanup, starting, redis, redisPending, filePending, tempVerificationCodes,
                   activeVerifications, verifiedUsers, guildConfigs, memberRoles,
                   check, submitting, nextCode, now>>

\* loops that count nothing
NextAttempt_stuck(sw) == sw

\* the two for loops of index.js:922 and 925: the next attempt of the round,
\* or the first attempt of the next round
NextAttempt(sw) ==
    IF sw.attempt < AttemptsPerRound
    THEN [sw EXCEPT !.attempt = @ + 1]
    ELSE [sw EXCEPT !.round = @ + 1, !.attempt = 1]

\* index.js:922-986: one fetch of the rounds, and what follows up to the next await
sweep_fetch(s) ==
    /\ sweep[s].pc = "fetch"
    /\ \E result \in FetchResults(nextCode - 1) :
         LET sw == sweep[s]
             u == sw.list[sw.idx].user
             record == sw.list[sw.idx].record
             lastBio == sw.lastBio \/ result.kind = "bio"
             matched == IF result.kind = "bio"
                        THEN Matcher(result.bio, record) ELSE NoCode
             deleted == DeletePendingRedisOnly(u)
         IN  /\ fetched' = result
             /\ IF result.kind = "null"
                THEN \* result.accountNotFound of null throws into the catch of 1073
                     /\ sweep' = [sweep EXCEPT ![s] = NextEntry(sw)]
                     /\ event' = Log(u, "checkError")
                     /\ UNCHANGED <<pendingVerifications, redisPending, filePending>>
                ELSE IF result.kind = "notFound"
                THEN /\ sweep' = [sweep EXCEPT ![s] = NextEntry(sw)]
                     /\ event' = Log(u, "notFound")
                     /\ pendingVerifications' = deleted[1]
                     /\ redisPending' = deleted[2]
                     /\ filePending' = deleted[3]
                ELSE IF matched # NoCode
                THEN /\ sweep' = [sweep EXCEPT ![s] =
                                    [sw EXCEPT !.pc = "member", !.lastBio = lastBio]]
                     /\ event' = Log(u, "match")
                     /\ UNCHANGED <<pendingVerifications, redisPending, filePending>>
                ELSE IF sw.attempt < AttemptsPerRound \/ sw.round < MaxRounds
                THEN /\ sweep' = [sweep EXCEPT ![s] =
                                    [NextAttempt(sw) EXCEPT !.lastBio = lastBio]]
                     /\ event' = NoEvent
                     /\ UNCHANGED <<pendingVerifications, redisPending, filePending>>
                ELSE /\ sweep' = [sweep EXCEPT ![s] = NextEntry(sw)]
                     /\ event' = NoEvent
                     /\ UNCHANGED <<pendingVerifications, redisPending, filePending>>
    /\ UNCHANGED <<otherVars, cleanup, starting, granted, redis, tempVerificationCodes, activeVerifications, verifiedUsers,
                   guildConfigs, memberRoles, check, submitting, nextCode, now>>

\* index.js:1008-1030: members.fetch(...).catch(() => null), then the role lookup
sweep_member_got(s, present) ==
    /\ sweep[s].pc = "member"
    /\ LET sw == sweep[s]
           record == sw.list[sw.idx].record
       IN  sweep' = [sweep EXCEPT ![s] =
                       IF present /\ guildConfigs[record.guildId]
                       THEN [sw EXCEPT !.pc = "grant"]
                       ELSE NextEntry(sw)]
    /\ Quiet
    /\ UNCHANGED <<otherVars, cleanup, starting, redis, pendingVerifications, redisPending, filePending,
                   tempVerificationCodes, activeVerifications, verifiedUsers,
                   guildConfigs, memberRoles, check, submitting, nextCode, now>>

sweep_member(s) == \E present \in BOOLEAN : sweep_member_got(s, present)

\* index.js:1032-1035 and 514: member.roles.add, then addVerifiedUser loads; a
\* throw is caught at index.js:1063
sweep_grant_got(s, ok) ==
    /\ sweep[s].pc = "grant"
    /\ LET sw == sweep[s]
           u == sw.list[sw.idx].user
           record == sw.list[sw.idx].record
       IN  IF ~ok
           THEN /\ sweep' = [sweep EXCEPT ![s] = NextEntry(sw)]
                /\ event' = Log(u, "verifyError")
                /\ UNCHANGED <<memberRoles, granted>>
           ELSE /\ sweep' = [sweep EXCEPT ![s] =
                               [sw EXCEPT !.pc = "save", !.users = verifiedUsers]]
                /\ memberRoles' = [memberRoles EXCEPT ![record.guildId] = @ \cup {u}]
                /\ granted' = granted \cup {u}
                /\ event' = Grant(u, "sweep")
    /\ NoFetch
    /\ UNCHANGED <<otherVars, cleanup, starting, redis, pendingVerifications, redisPending, filePending,
                   tempVerificationCodes, activeVerifications, verifiedUsers,
                   guildConfigs, check, submitting, nextCode, now>>

sweep_grant(s) == \E ok \in BOOLEAN : sweep_grant_got(s, ok)

\* index.js:517-538 and 1039-1045: addVerifiedUser saves the loaded list
sweep_save(s) ==
    /\ sweep[s].pc = "save"
    /\ LET sw == sweep[s]
           u == sw.list[sw.idx].user
           record == sw.list[sw.idx].record
       IN  /\ verifiedUsers' = AddVerified(sw.users, record.guildId, u, record.username)
           /\ sweep' = [sweep EXCEPT ![s] = [sw EXCEPT !.pc = "delete", !.users = NoUsers]]
    /\ Quiet
    /\ UNCHANGED <<otherVars, cleanup, starting, redis, pendingVerifications, redisPending, filePending,
                   tempVerificationCodes, activeVerifications, guildConfigs,
                   memberRoles, check, submitting, nextCode, now>>

\* index.js:1047-1061: the record is removed and the member is sent the DM
sweep_delete(s) ==
    /\ sweep[s].pc = "delete"
    /\ LET sw == sweep[s]
           u == sw.list[sw.idx].user
           deleted == DeletePendingSaved(u)
       IN  /\ pendingVerifications' = deleted[1]
           /\ redisPending' = deleted[2]
           /\ filePending' = deleted[3]
           /\ event' = Dm(u)
           /\ sweep' = [sweep EXCEPT ![s] = NextEntry(sw)]
    /\ NoFetch
    /\ UNCHANGED <<otherVars, cleanup, starting, granted, redis, tempVerificationCodes, activeVerifications, verifiedUsers,
                   guildConfigs, memberRoles, check, submitting, nextCode, now>>

(***************************************************************************)
(* Operator commands and the role-removed event.                           *)
(***************************************************************************)
\* /set-verified-role (index.js:1290-1302, 222-227)
set_verified_role(g) ==
    /\ ~guildConfigs[g]
    /\ guildConfigs' = [guildConfigs EXCEPT ![g] = TRUE]
    /\ Quiet
    /\ UNCHANGED <<otherVars, cleanup, starting, redis, pendingVerifications, redisPending, filePending,
                   tempVerificationCodes, activeVerifications, verifiedUsers,
                   memberRoles, check, sweep, submitting, nextCode, now>>

\* index.js:1394-1398, 2455-2459: the record is cleared when memory holds one
ClearPendingIfHeld(u) ==
    IF pendingVerifications[u] # NoRecord
    THEN DeletePendingRedisOnly(u)
    ELSE <<pendingVerifications, redisPending, filePending>>

\* /manual-verify (index.js:1362-1404)
manual_verify(u, h, g) ==
    /\ memberRoles' = IF guildConfigs[g]
                      THEN [memberRoles EXCEPT ![g] = @ \cup {u}]
                      ELSE memberRoles
    /\ verifiedUsers' = AddVerified(verifiedUsers, g, u, h)
    /\ LET cleared == ClearPendingIfHeld(u)
       IN  /\ pendingVerifications' = cleared[1]
           /\ redisPending' = cleared[2]
           /\ filePending' = cleared[3]
    /\ Quiet
    /\ UNCHANGED <<otherVars, cleanup, starting, redis, tempVerificationCodes, activeVerifications, guildConfigs,
                   check, sweep, submitting, nextCode, now>>

\* guildMemberUpdate (index.js:2437-2464): the verified role was taken away
role_removed(u, g) ==
    /\ guildConfigs[g]
    /\ u \in memberRoles[g]
    /\ memberRoles' = [memberRoles EXCEPT ![g] = @ \ {u}]
    /\ verifiedUsers' = RemoveVerified(verifiedUsers, g, u)
    /\ LET cleared == ClearPendingIfHeld(u)
       IN  /\ pendingVerifications' = cleared[1]
           /\ redisPending' = cleared[2]
           /\ filePending' = cleared[3]
    /\ Quiet
    /\ UNCHANGED <<otherVars, cleanup, starting, redis, tempVerificationCodes, activeVerifications, guildConfigs,
                   check, sweep, submitting, nextCode, now>>

\* /unverify (index.js:1534-1557); roles.remove raises guildMemberUpdate
unverify(u, g) ==
    /\ verifiedUsers[g][u] # NoHandle
    /\ verifiedUsers' = RemoveVerified(verifiedUsers, g, u)
    /\ IF guildConfigs[g] /\ u \in memberRoles[g]
       THEN /\ memberRoles' = [memberRoles EXCEPT ![g] = @ \ {u}]
            /\ LET cleared == ClearPendingIfHeld(u)
               IN  /\ pendingVerifications' = cleared[1]
                   /\ redisPending' = cleared[2]
                   /\ filePending' = cleared[3]
       ELSE UNCHANGED <<memberRoles, pendingVerifications, redisPending, filePending>>
    /\ Quiet
    /\ UNCHANGED <<otherVars, cleanup, starting, redis, tempVerificationCodes, activeVerifications, guildConfigs,
                   check, sweep, submitting, nextCode, now>>

(***************************************************************************)
(* /cleanup (index.js:1460-1506): the operator's pass over the pending     *)
(* records of the guild.  cleanup.pc names the await the command is at.    *)
(***************************************************************************)
\* data.createdAt && Date.now() - data.createdAt > 24 h (index.js:1478); one
\* tick of the model's clock is longer than the 24 hours
Expiry == 0

Expired(data) == now - data.createdAt > Expiry

\* index.js:1476-1478
ShouldRemove(data) ==
    data.username = NoHandle \/ data.code = NoCode \/ Expired(data)

\* getAllPendingVerifications (index.js:419-438): the Redis records first, then
\* the records of memory that Redis does not hold
AllPending ==
    [u \in Users |->
        IF redis /\ redisPending[u] # NoRecord
        THEN redisPending[u] ELSE pendingVerifications[u]]

\* index.js:1460-1465: the command arrives, deferReply is awaited
cleanup_start(g) ==
    /\ cleanup.pc = "idle"
    /\ cleanup' = [IdleCleanup EXCEPT !.pc = "list", !.guild = g]
    /\ Quiet
    /\ UNCHANGED <<otherVars, starting, redis, pendingVerifications, redisPending, filePending,
                   tempVerificationCodes, activeVerifications, verifiedUsers,
                   guildConfigs, memberRoles, check, sweep, submitting, nextCode, now>>

\* index.js:1467: getAllPendingVerifications has answered
cleanup_list ==
    /\ cleanup.pc = "list"
    /\ \E list \in Entries(AllPending) :
         cleanup' = [cleanup EXCEPT !.pc = "next", !.list = list]
    /\ Quiet
    /\ UNCHANGED <<otherVars, starting, redis, pendingVerifications, redisPending, filePending,
                   tempVerificationCodes, activeVerifications, verifiedUsers,
                   guildConfigs, memberRoles, check, sweep, submitting, nextCode, now>>

\* index.js:1471-1486 and 1493-1505: the loop goes to the next record of the
\* guild; a record without handle or code, or an expired one, is removed
\* (removePendingVerification, index.js:441-448), any other is fetched; after
\* the last record the operator is answered
cleanup_entry ==
    /\ cleanup.pc = "next"
    /\ LET own == {k \in (cleanup.idx + 1)..Len(cleanup.list) :
                      cleanup.list[k].record.guildId = cleanup.guild}
       IN  IF own = {}
           THEN /\ cleanup' = IdleCleanup
                /\ event' = OperatorReply("scanned")
                /\ UNCHANGED <<pendingVerifications, redisPending, filePending>>
           ELSE LET k == Min(own)
                    removed == DeletePendingSaved(cleanup.list[k].user)
                IN  IF ShouldRemove(cleanup.list[k].record)
                    THEN /\ cleanup' = [cleanup EXCEPT !.idx = k]
                         /\ pendingVerifications' = removed[1]
                         /\ redisPending' = removed[2]
                         /\ filePending' = removed[3]
                         /\ event' = NoEvent
                    ELSE /\ cleanup' = [cleanup EXCEPT !.pc = "fetch", !.idx = k]
                         /\ event' = NoEvent
                         /\ UNCHANGED <<pendingVerifications, redisPending, filePending>>
    /\ NoFetch
    /\ UNCHANGED <<otherVars, starting, granted, redis, tempVerificationCodes, activeVerifications,
                   verifiedUsers, guildConfigs, memberRoles, check, sweep, submitting,
                   nextCode, now>>

\* index.js:1481-1490: fetchTikTokBio has answered; bio === null removes the
\* record
cleanup_fetch ==
    /\ cleanup.pc = "fetch"
    /\ \E result \in FetchResults(nextCode - 1) :
         LET removed == DeletePendingSaved(cleanup.list[cleanup.idx].user)
         IN  /\ fetched' = result
             /\ IF result.kind = "null"
                THEN /\ pendingVerifications' = removed[1]
                     /\ redisPending' = removed[2]
                     /\ filePending' = removed[3]
                ELSE UNCHANGED <<pendingVerifications, redisPending, filePending>>
    /\ cleanup' = [cleanup EXCEPT !.pc = "next"]
    /\ event' = NoEvent
    /\ UNCHANGED <<otherVars, starting, granted, redis, tempVerificationCodes, activeVerifications,
                   verifiedUsers, guildConfigs, memberRoles, check, sweep, submitting,
                   nextCode, now>>

\* a backfill that lists the member as verified
backfill_log_verifies(g) ==
    /\ verifiedUsers' = AddVerified(verifiedUsers, g, "u1", h2)
    /\ event' = OperatorReply("backfill")
    /\ NoFetch
    /\ UNCHANGED <<redis, pendingVerifications, redisPending, filePending,
                   tempVerificationCodes, activeVerifications, guildConfigs,
                   memberRoles, check, sweep, submitting, starting, cleanup,
                   nextCode, now, otherVars, granted>>

\* /backfill-log (index.js:1875-1939): the pending and the verified records
\* of the guild are read and written to the verification log, which is kept
\* apart from both
backfill_log(g) ==
    /\ event' = OperatorReply("backfill")
    /\ NoFetch
    /\ UNCHANGED <<engineVars, otherVars, granted>>

\* the member submits a handle once, while the issued code is on record
CodeOnRecord(u) == submitting[u] = 0 /\ tempVerificationCodes[u] # NoTemp

\* a click is served by the first handler slot that is not in use
FreeSlot(u, i) == \A j \in Instances : j < i => check[u][j].pc # "idle"

(***************************************************************************)
(* The concurrency specification: one member of one guild, two clicks of   *)
(* the check button in flight, one background run.                         *)
(***************************************************************************)
Next ==
    \/ nextCode <= MaxIssuedMain /\ verify_tiktok_start("u1", "g1")
    \/ start_issue("u1")
    \/ start_lookup("u1")
    \/ CodeOnRecord("u1") /\ link_modal_store("u1", h1)
    \/ link_modal_finish("u1")
    \/ \E i \in Instances :
         \/ FreeSlot("u1", i) /\ check_click("u1", i, "g1")
         \/ check_lookup("u1", i)
         \/ check_defer("u1", i)
         \/ check_fetch("u1", i)
         \/ check_member("u1", i)
         \/ check_grant("u1", i)
         \/ check_save("u1", i)
         \/ check_reply("u1", i)
    \/ sweep_start(1)
    \/ sweep_fetch(1)
    \/ sweep_member(1)
    \/ sweep_grant(1)
    \/ sweep_save(1)
    \/ sweep_delete(1)
    \/ set_verified_role("g1")

Spec == Init /\ [][Next]_vars

(***************************************************************************)
(* The operations specification: every engine operation of one member, one *)
(* handler of each kind in flight.                                         *)
(***************************************************************************)
NextOps ==
    \/ (nextCode <= MaxIssuedOps \/ "u1" \in activeVerifications)
          /\ verify_tiktok_start("u1", "g1")
    \/ start_issue("u1")
    \/ start_lookup("u1")
    \/ submitting["u1"] = 0 /\ link_modal_store("u1", h1)
    \/ link_modal_finish("u1")
    \/ check_click("u1", 1, "g1")
    \/ check_lookup("u1", 1)
    \/ check_defer("u1", 1)
    \/ check_fetch("u1", 1)
    \/ check_member("u1", 1)
    \/ check_grant("u1", 1)
    \/ check_save("u1", 1)
    \/ check_reply("u1", 1)
    \/ sweep_start(1)
    \/ sweep_fetch(1)
    \/ sweep_member(1)
    \/ sweep_grant(1)
    \/ sweep_save(1)
    \/ sweep_delete(1)
    \/ set_verified_role("g1")
    \/ manual_verify("u1", h1, "g1")
    \/ role_removed("u1", "g1")
    \/ unverify("u1", "g1")

SpecOps == Init /\ [][NextOps]_vars

(***************************************************************************)
(* The background-progress specification: one check handler and one        *)
(* background run whose Discord calls succeed (the member is in the guild, *)
(* roles.add does not throw).  A background run that has begun an await    *)
(* resumes when the await settles, hence the weak fairness of its steps.   *)
(***************************************************************************)
NextLive ==
    \/ nextCode <= MaxIssuedMain /\ verify_tiktok_start("u1", "g1")
    \/ start_issue("u1")
    \/ start_lookup("u1")
    \/ CodeOnRecord("u1") /\ link_modal_store("u1", h1)
    \/ link_modal_finish("u1")
    \/ check_click("u1", 1, "g1")
    \/ check_lookup("u1", 1)
    \/ check_defer("u1", 1)
    \/ check_fetch("u1", 1)
    \/ check_member("u1", 1)
    \/ check_grant("u1", 1)
    \/ check_save("u1", 1)
    \/ check_reply("u1", 1)
    \/ sweep_start(1)
    \/ sweep_fetch(1)
    \/ sweep_member_got(1, TRUE)
    \/ sweep_grant_got(1, TRUE)
    \/ sweep_save(1)
    \/ sweep_delete(1)
    \/ set_verified_role("g1")

SpecLive ==
    /\ Init
    /\ [][NextLive]_vars
    /\ WF_vars(sweep_member_got(1, TRUE))
    /\ WF_vars(sweep_grant_got(1, TRUE))
    /\ WF_vars(sweep_save(1))
    /\ WF_vars(sweep_delete(1))

(***************************************************************************)
(* The code-history specification: one member issues codes and submits.    *)
(***************************************************************************)
NextCodes ==
    \/ nextCode <= MaxIssuedCodes /\ verify_tiktok_start("u1", "g1")
    \/ start_issue("u1")
    \/ start_lookup("u1")
    \/ \E h \in Handles : link_modal_store("u1", h)
    \/ link_modal_finish("u1")
    \/ Tick

SpecCodes == Init /\ [][NextCodes]_vars

(***************************************************************************)
(* The two-guild specification: one member uses the buttons of two guilds. *)
(***************************************************************************)
NextGuilds ==
    \/ \E g \in Guilds : nextCode <= MaxIssuedGuilds /\ verify_tiktok_start("u1", g)
    \/ start_issue("u1")
    \/ start_lookup("u1")
    \/ CodeOnRecord("u1") /\ link_modal_store("u1", h1)
    \/ link_modal_finish("u1")
    \/ \E g \in Guilds : check_click("u1", 1, g)
    \/ check_lookup("u1", 1)
    \/ check_defer("u1", 1)
    \/ check_fetch("u1", 1)
    \/ check_member("u1", 1)
    \/ check_grant("u1", 1)
    \/ check_save("u1", 1)
    \/ check_reply("u1", 1)
    \/ \E g \in Guilds : set_verified_role(g)

SpecGuilds == Init /\ [][NextGuilds]_vars

(***************************************************************************)
(* The cleanup specification: one member, one check handler and the        *)
(* operator's /cleanup command, with the clock running.                    *)
(***************************************************************************)
NextCleanup ==
    \/ nextCode <= MaxIssuedOps /\ verify_tiktok_start("u1", "g1")
    \/ start_issue("u1")
    \/ start_lookup("u1")
    \/ CodeOnRecord("u1") /\ link_modal_store("u1", h1)
    \/ link_modal_finish("u1")
    \/ Tick
    \/ check_click("u1", 1, "g1")
    \/ check_lookup("u1", 1)
    \/ check_defer("u1", 1)
    \/ check_fetch("u1", 1)
    \/ check_member("u1", 1)
    \/ check_grant("u1", 1)
    \/ check_save("u1", 1)
    \/ check_reply("u1", 1)
    \/ set_verified_role("g1")
    \/ \E g \in Guilds : cleanup_start(g)
    \/ cleanup_list
    \/ cleanup_entry
    \/ cleanup_fetch

SpecCleanup == Init /\ [][NextCleanup]_vars

(***************************************************************************)
(* The fetch-outcome specification: one member, one check handler and one  *)
(* background run, every outcome of the fetch and of the Discord calls.    *)
(***************************************************************************)
NextFetch ==
    \/ nextCode <= MaxIssuedMain /\ verify_tiktok_start("u1", "g1")
    \/ start_issue("u1")
    \/ start_lookup("u1")
    \/ CodeOnRecord("u1") /\ link_modal_store("u1", h1)
    \/ link_modal_finish("u1")
    \/ check_click("u1", 1, "g1")
    \/ check_lookup("u1", 1)
    \/ check_defer("u1", 1)
    \/ check_fetch("u1", 1)
    \/ check_member("u1", 1)
    \/ check_grant("u1", 1)
    \/ check_save("u1", 1)
    \/ check_reply("u1", 1)
    \/ sweep_start(1)
    \/ sweep_fetch(1)
    \/ sweep_member(1)
    \/ sweep_grant(1)
    \/ sweep_save(1)
    \/ sweep_delete(1)
    \/ set_verified_role("g1")

SpecFetch == Init /\ [][NextFetch]_vars

(***************************************************************************)
(* The timer specification: the timers of the scheduler (index.js:1086 and *)
(* 1091) fire whether or not the run before has ended.                     *)
(***************************************************************************)
\* a timer that fires is served by the first run slot that is not in use
FreeSweep(s) == \A j \in Sweeps : j < s => sweep[j].pc # "idle"

NextTimer ==
    \/ nextCode <= MaxIssuedMain /\ verify_tiktok_start("u1", "g1")
    \/ start_issue("u1")
    \/ start_lookup("u1")
    \/ CodeOnRecord("u1") /\ link_modal_store("u1", h1)
    \/ link_modal_finish("u1")
    \/ \E s \in Sweeps :
         \/ FreeSweep(s) /\ sweep_start(s)
         \/ sweep_fetch(s)
         \/ sweep_member(s)
         \/ sweep_grant(s)
         \/ sweep_save(s)
         \/ sweep_delete(s)
    \/ set_verified_role("g1")

SpecTimer == Init /\ [][NextTimer]_vars

(***************************************************************************)
(* The background-run specification: the members get a pending record, one *)
(* after the other, one code for each member, and one background run goes  *)
(* through its list.  A run that has begun an await resumes when the await *)
(* settles (the fetch has a timeout, index.js:710-711), hence the weak     *)
(* fairness of its steps.                                                  *)
(***************************************************************************)
\* no start button and no link modal is being served
NoneStarting == \A u \in Users : starting[u].pc = "idle" /\ submitting[u] = 0

NextSweep ==
    \/ \E u \in Users :
         /\ nextCode <= Cardinality(Users)
         /\ NoneStarting
         /\ tempVerificationCodes[u] = NoTemp
         /\ verify_tiktok_start(u, "g1")
    \/ \E u \in Users : start_issue(u)
    \/ \E u \in Users : start_lookup(u)
    \/ CodeOnRecord("u1") /\ link_modal_store("u1", h1)
    \/ CodeOnRecord("u2") /\ link_modal_store("u2", h2)
    \/ \E u \in Users : link_modal_finish(u)
    \/ sweep_start(1)
    \/ sweep_fetch(1)
    \/ sweep_member(1)
    \/ sweep_grant(1)
    \/ sweep_save(1)
    \/ sweep_delete(1)
    \/ set_verified_role("g1")

SpecSweep ==
    /\ Init
    /\ [][NextSweep]_vars
    /\ WF_vars(sweep_fetch(1))
    /\ WF_vars(sweep_member(1))
    /\ WF_vars(sweep_grant(1))
    /\ WF_vars(sweep_save(1))
    /\ WF_vars(sweep_delete(1))



(***************************************************************************)
(* The matcher specification: the test of a bio against a candidate list.  *)
(***************************************************************************)
matcher_call == Return(MatchedCode(callArgs.bio, callArgs.allCodes))

NextMatcher == matcher_call

SpecMatcher == InitCall(MatcherInputs) /\ [][NextMatcher]_vars

(***************************************************************************)
(* The generator specification: a code is generated from a name.           *)
(***************************************************************************)
generate_code == Return(generateCode(callArgs.name, callArgs.random))

NextGenerate == generate_code

SpecGenerate == InitCall([name : Names, random : Randoms]) /\ [][NextGenerate]_vars

(***************************************************************************)
(* The writers specification: one member, every operation of the bot that  *)
(* the operators and the member can start.                                 *)
(***************************************************************************)
NextWriters ==
    \/ NextOps
    \/ cleanup_start("g1")
    \/ cleanup_list
    \/ cleanup_entry
    \/ cleanup_fetch
    \/ backfill_log("g1")

SpecWriters == Init /\ [][NextWriters]_vars

(***************************************************************************)
(* The verified-list specification: two calls of addVerifiedUser at a      *)
(* time, for the members of one guild.                                     *)
(***************************************************************************)
NextVerified ==
    \/ \E c \in Instances, u \in Users, h \in Handles : add_load(c, "g1", u, h)
    \/ \E c \in Instances : add_save(c)

SpecVerified == Init /\ [][NextVerified]_vars

(***************************************************************************)
(* The prefix specification: each member starts one verification, in either *)
(* guild; the prefix of the code is resolved before the code is stored.    *)
(***************************************************************************)
NextPrefix ==
    \/ \E u \in Users, g \in Guilds :
          /\ tempVerificationCodes[u] = NoTemp
          /\ verify_tiktok_start(u, g)
    \/ \E u \in Users : get_server_prefix(u)
    \/ \E u \in Users, ok \in BOOLEAN : fetch_owner(u, ok)
    \/ \E u \in Users : starting[u].prefix # <<>> /\ start_issue(u)
    \/ \E u \in Users : start_lookup(u)

SpecPrefix == Init /\ [][NextPrefix]_vars

(***************************************************************************)
(* The payload of a profile page (index.js:724-812).  A payload is a       *)
(* sequence of the parts the patterns of fetchTikTokBio look for:          *)
(*   status       "webapp.user-detail":{"statusCode":code                  *)
(*   rehydration  the script __UNIVERSAL_DATA_FOR_REHYDRATION__            *)
(*   sigi         the script SIGI_STATE                                    *)
(*   field        "signature":"..." outside the scripts                    *)
(*   userInfo     "userInfo":{..."signature":"..." outside the scripts     *)
(* signature is the text of the signature the part holds: "" when it is    *)
(* empty, NoSignature when a script has none or cannot be parsed.          *)
(***************************************************************************)
NoSignature == "none"
BioTexts == {"bio", "escaped"}

HtmlParts ==
    [part : {"status"}, signature : {"10221", "0"}]
        \cup [part : {"rehydration", "sigi"},
              signature : BioTexts \cup {"", NoSignature}]
        \cup [part : {"field"}, signature : BioTexts \cup {""}]
        \cup [part : {"userInfo"}, signature : BioTexts]

Htmls == UNION {[1..n -> HtmlParts] : n \in 0..MaxHtmlLen}

\* html.match(pattern): the first part of one of the kinds, or none
FirstPart(html, kinds) ==
    LET found == {i \in DOMAIN html : html[i].part \in kinds
                                       /\ html[i].signature # NoSignature}
    IN  IF found = {} THEN [part |-> "none", signature |-> NoSignature]
        ELSE html[Min(found)]

\* the first script of an id, whatever it holds
FirstScript(html, id) ==
    LET found == {i \in DOMAIN html : html[i].part = id}
    IN  IF found = {} THEN [part |-> "none", signature |-> NoSignature]
        ELSE html[Min(found)]

\* a signature that counts as a bio: not undefined, not empty
Truthy(signature) == signature \notin {"", NoSignature}

\* index.js:804-808: the escapes of the text are resolved
Unescape(bio) == IF bio = "escaped" THEN "unescaped" ELSE bio

\* an extraction that looks at the older script first
Extract_sigiFirst(html) ==
    LET sigi == FirstScript(html, "sigi").signature
        rehydration == FirstScript(html, "rehydration").signature
        SignatureParts == {"rehydration", "sigi", "field", "userInfo"}
        match1 == FirstPart(html, SignatureParts).signature
        match2 == FirstPart(html, {"userInfo"}).signature
    IN  IF Truthy(sigi) THEN sigi
        ELSE IF Truthy(rehydration) THEN rehydration
        ELSE IF Truthy(match1) THEN match1
        ELSE IF Truthy(match2) THEN match2
        ELSE NoSignature

\* index.js:740-790: method 1, method 2, then the two patterns of method 3
Extract(html) ==
    LET rehydration == FirstScript(html, "rehydration").signature
        sigi == FirstScript(html, "sigi").signature
        SignatureParts == {"rehydration", "sigi", "field", "userInfo"}
        match1 == FirstPart(html, SignatureParts).signature
        match2 == FirstPart(html, {"userInfo"}).signature
    IN  IF Truthy(rehydration) THEN rehydration
        ELSE IF Truthy(sigi) THEN sigi
        ELSE IF Truthy(match1) THEN match1
        ELSE IF Truthy(match2) THEN match2
        ELSE NoSignature

\* index.js:724-812: what fetchTikTokBio returns for a page it has read
ClassifyPayload(html) ==
    IF FirstPart(html, {"status"}).signature = "10221"
    THEN [bio |-> NoSignature, accountNotFound |-> TRUE, emptyBio |-> FALSE]
    ELSE LET bio == Extract(html)
         IN  IF bio = NoSignature
             THEN IF \E i \in DOMAIN html : html[i].signature = ""
                  THEN [bio |-> "", accountNotFound |-> FALSE, emptyBio |-> TRUE]
                  ELSE [bio |-> NoSignature, accountNotFound |-> FALSE,
                        emptyBio |-> FALSE]
             ELSE [bio |-> Unescape(bio), accountNotFound |-> FALSE,
                   emptyBio |-> FALSE]

classify_payload == Return(ClassifyPayload(callArgs))

NextPayload == classify_payload

SpecPayload == InitCall(Htmls) /\ [][NextPayload]_vars

(***************************************************************************)
(* The stored form of a pending record.  A JavaScript object is the        *)
(* sequence of its members <<key, value>>, a value carries its type; a     *)
(* JSON text is the sequence of its members <<key, json>>.                 *)
(***************************************************************************)
Undefined == [type |-> "undefined", value |-> <<>>]
Str(s) == [type |-> "string", value |-> s]
Num(n) == [type |-> "number", value |-> n]
Arr(list) == [type |-> "array", value |-> list]
Obj(members) == [type |-> "object", value |-> members]

\* object[key]
Get(object, key) ==
    LET found == {i \in DOMAIN object : object[i][1] = key}
    IN  IF found = {} THEN Undefined ELSE object[Min(found)][2]

RECURSIVE JsonStringify(_)
\* a text that writes a number as a string
JsonStringify_quoted(value) ==
    CASE value.type = "string" -> [json |-> "quoted", text |-> value.value]
      [] value.type = "number" -> [json |-> "quoted", text |-> value.value]
      [] value.type = "undefined" -> [json |-> "null", text |-> <<>>]
      [] value.type = "array" ->
            [json |-> "brackets",
             text |-> [i \in DOMAIN value.value |-> JsonStringify(value.value[i])]]
      [] value.type = "object" ->
            LET kept == SelectSeq(value.value, LAMBDA m : m[2].type # "undefined")
            IN  [json |-> "braces",
                 text |-> [i \in DOMAIN kept |->
                              <<kept[i][1], JsonStringify(kept[i][2])>>]]

\* JSON.stringify: a member whose value is undefined is left out, an
\* undefined element of an array is written as null
JsonStringify(value) ==
    CASE value.type = "string" -> [json |-> "quoted", text |-> value.value]
      [] value.type = "number" -> [json |-> "digits", text |-> value.value]
      [] value.type = "undefined" -> [json |-> "null", text |-> <<>>]
      [] value.type = "array" ->
            [json |-> "brackets",
             text |-> [i \in DOMAIN value.value |-> JsonStringify(value.value[i])]]
      [] value.type = "object" ->
            LET kept == SelectSeq(value.value, LAMBDA m : m[2].type # "undefined")
            IN  [json |-> "braces",
                 text |-> [i \in DOMAIN kept |->
                              <<kept[i][1], JsonStringify(kept[i][2])>>]]

\* JSON.parse
RECURSIVE JsonParse(_)
JsonParse(json) ==
    CASE json.json = "quoted" -> Str(json.text)
      [] json.json = "digits" -> Num(json.text)
      [] json.json = "null" -> [type |-> "null", value |-> <<>>]
      [] json.json = "brackets" ->
            Arr([i \in DOMAIN json.text |-> JsonParse(json.text[i])])
      [] json.json = "braces" ->
            Obj([i \in DOMAIN json.text |->
                    <<json.text[i][1], JsonParse(json.text[i][2])>>])

\* redisSavePending (index.js:317-326): the text kept under the member's key
redisSavePending(userId, data) == <<userId, JsonStringify(Obj(data))>>

\* redisGetPending (index.js:328-337) of a key that holds a text
redisGetPending(stored) == JsonParse(stored[2]).value

\* savePendingVerifications without Redis (index.js:409-415): the text of
\* Object.fromEntries(pendingVerifications)
savePendingVerifications(memory) ==
    JsonStringify(Obj([i \in DOMAIN memory |-> <<memory[i][1], Obj(memory[i][2])>>]))

\* loadPendingVerifications without Redis (index.js:387-398): each entry of
\* the parsed file is set in the map
loadPendingFile(file) ==
    LET parsed == JsonParse(file).value
    IN  [i \in DOMAIN parsed |-> <<parsed[i][1], parsed[i][2].value>>]

\* pendingVerifications.get(userId)
MapGet(memory, userId) == Get(memory, userId)

\* pendingData of the link modal (index.js:2312-2318)
ModalRecords ==
    {<< <<"username", Str(h)>>, <<"code", Str(c)>>, <<"previousCodes", Arr(p)>>,
        <<"guildId", Str(g)>>, <<"createdAt", Num(at)>> >> :
        h \in Handles, c \in {2, 3}, p \in {<<>>, <<Str(1)>>},
        g \in Guilds, at \in 0..MaxTime}

\* oldFlowData of the username modal (index.js:2394-2398)
OldFlowRecords ==
    {<< <<"username", Str(h)>>, <<"code", Str(c)>>, <<"guildId", Str(g)>> >> :
        h \in Handles, c \in {2, 3}, g \in Guilds}

\* the map after pendingVerifications.set("u1", data), alone or after the
\* record of another member
StoredMaps ==
    LET records == ModalRecords \cup OldFlowRecords
        others == {r \in records : Get(r, "username").value = h2
                                    /\ Get(r, "code").value = 3}
    IN  {<< <<"u1", data>> >> : data \in records}
        \cup {<< <<"u2", other>>, <<"u1", data>> >> :
                 other \in others, data \in records}

\* the record of u1 as it is read back
round_trip ==
    LET data == MapGet(callArgs.memory, "u1")
    IN  Return(IF callArgs.redis
               THEN redisGetPending(redisSavePending("u1", data))
               ELSE MapGet(loadPendingFile(savePendingVerifications(callArgs.memory)),
                           "u1"))

NextRoundTrip == round_trip

SpecRoundTrip ==
    InitCall([redis : BOOLEAN, memory : StoredMaps]) /\ [][NextRoundTrip]_vars

(***************************************************************************)
(* The storage specification: one member; the file and Redis hold what     *)
(* earlier runs of the process have left there, Redis may fail to answer,  *)
(* and the process may start again.                                        *)
(***************************************************************************)
\* the record of a submit made while another backend was configured
FileRecord ==
    [username |-> h1, code |-> 1, previousCodes |-> <<>>,
     guildId |-> "g1", createdAt |-> 0]

\* the process has started on the stores of earlier runs
InitStore ==
    /\ redis \in BOOLEAN
    /\ redisPending \in [Users -> {NoRecord, FileRecord}]
    /\ filePending \in [Users -> {NoRecord, FileRecord}]
    /\ redisPending["u2"] = NoRecord
    /\ filePending["u2"] = NoRecord
    /\ pendingVerifications = loadPendingVerifications(TRUE)
    /\ nextCode = 2
    /\ InitHandlers
    /\ NoCall

NextStore ==
    \/ /\ nextCode <= MaxIssuedStore
       /\ tempVerificationCodes["u1"] = NoTemp
       /\ verify_tiktok_start("u1", "g1")
    \/ start_issue("u1")
    \/ start_lookup("u1")
    \/ CodeOnRecord("u1") /\ link_modal_store("u1", h1)
    \/ CodeOnRecord("u1") /\ link_modal_store_failed("u1", h1)
    \/ link_modal_finish("u1")
    \/ check_click("u1", 1, "g1")
    \/ check_lookup("u1", 1)
    \/ check_defer("u1", 1)
    \/ check_fetch("u1", 1)
    \/ check_member("u1", 1)
    \/ check_grant("u1", 1)
    \/ check_save("u1", 1)
    \/ check_reply("u1", 1)
    \/ set_verified_role("g1")
    \/ \E answers \in BOOLEAN : restart(answers)

SpecStore == InitStore /\ [][NextStore]_vars

(***************************************************************************)
(* The link-modal specification: one member issues a code, opens the       *)
(* modal, types a text and submits it, one modal after the other.          *)
(***************************************************************************)
\* the record of a submit the member made before
EarlierRecord ==
    [username |-> <<"a", "a">>, code |-> 1, previousCodes |-> <<>>,
     guildId |-> "g1", createdAt |-> 0]

\* the member holds no record, or one of an earlier submit
InitModal ==
    /\ redis \in BOOLEAN
    /\ \E record \in {NoRecord, EarlierRecord} :
          LET stored == [u \in Users |-> IF u = "u1" THEN record ELSE NoRecord]
              none == [u \in Users |-> NoRecord]
          IN  /\ pendingVerifications = stored
              /\ redisPending = IF redis THEN stored ELSE none
              /\ filePending = IF redis THEN none ELSE stored
    /\ nextCode = 2
    /\ InitHandlers
    /\ NoCall

NextModal ==
    \/ /\ tempVerificationCodes["u1"] = NoTemp
       /\ pendingVerifications["u1"] \in {NoRecord, EarlierRecord}
       /\ verify_tiktok_start("u1", "g1")
    \/ start_issue("u1")
    \/ start_lookup("u1")
    \/ \E input \in Texts : submitting["u1"] = 0 /\ verify_tiktok_added("u1", input)
    \/ link_modal_submit("u1")
    \/ link_modal_defer("u1")
    \/ \E accountExists \in BOOLEAN : link_modal_exists("u1", accountExists)
    \/ link_modal_similar("u1")
    \/ link_modal_finish("u1")

SpecModal == InitModal /\ [][NextModal]_vars

(***************************************************************************)
(* Properties of the foreground check and the background run (Spec).       *)
(***************************************************************************)
\* the check handlers of u that are past the guard of index.js:2058-2066
Loops(u) == {i \in Instances : check[u][i].pc \notin {"idle", "lookup"}}

\* this step takes handler i of u through the lookup and the guard
\* (index.js:2039-2066): it is answered there, or it enters the loop
GuardStep(u, i) ==
    \/ check[u][i].pc = "lookup" /\ check'[u][i].pc # "lookup"
    \/ check[u][i].pc = "idle" /\ check'[u][i].pc = "defer"
    \/ /\ check[u][i].pc = "idle"
       /\ check' = check
       /\ event'.kind = "reply" /\ event'.user = u

\* the record handler i of u has looked up when it reaches the guard
LookedUp(u, i) ==
    IF check[u][i].pc = "lookup" THEN check[u][i].record
    ELSE pendingVerifications[u]

SweepUser(s) ==
    IF sweep[s].pc = "idle" THEN "none" ELSE sweep[s].list[sweep[s].idx].user

\* C2 as stated: a background run and a foreground check never run a check loop
\* for the same member at the same time.
C2_SweepExcludesForeground ==
    ~(/\ SweepUser(1) = "u1"
      /\ sweep[1].pc = "fetch"
      /\ \E i \in Instances : check["u1"][i].pc = "fetch")

\* C3 as stated: a member in the in-progress set has a check that is still
\* running and will take it out; no check ends and leaves its member in the set.
C3_MarkedHasRunningCheck ==
    \A u \in activeVerifications : Loops(u) # {}

\* C4 as stated: the role is granted once for one verification; no check or
\* background run grants it again after a grant (granted is emptied by the next
\* submit, which starts a new verification).
C4_GrantedOnce ==
    [][~(event'.kind = "grant" /\ event'.user \in granted)]_vars

AllIdle ==
    /\ \A u \in Users, i \in Instances : check[u][i].pc = "idle"
    /\ \A s \in DOMAIN sweep : sweep[s].pc = "idle"
    /\ \A u \in Users : submitting[u] = 0 /\ starting[u].pc = "idle"
    /\ cleanup.pc = "idle"

\* the durable store the process reads back: Redis when configured, else the file
Backend == IF redis THEN redisPending ELSE filePending

\* C5 as stated: once the operations have ended, a member with a verified
\* record has no pending record, neither in memory nor in the durable store.
C5_VerifiedHasNoPending ==
    (AllIdle /\ verifiedUsers["g1"]["u1"] # NoHandle)
        => /\ pendingVerifications["u1"] = NoRecord
           /\ Backend["u1"] = NoRecord

(***************************************************************************)
(* Properties of the codes and their history (SpecCodes).                  *)
(***************************************************************************)
\* C8: a second submit of the same handle, with no new code issued since the
\* first, leaves the member's one pending record with the code and the history
\* the first submit stored, in memory and in the durable store; a submit that
\* finds no code on record changes nothing.
C8_ResubmitKeepsCode ==
    /\ [][(/\ event' = Submitted("u1", pendingVerifications["u1"].username)
           /\ pendingVerifications["u1"].code = tempVerificationCodes["u1"].code)
             => /\ pendingVerifications'["u1"].username = pendingVerifications["u1"].username
                /\ pendingVerifications'["u1"].code = pendingVerifications["u1"].code
                /\ pendingVerifications'["u1"].previousCodes =
                       pendingVerifications["u1"].previousCodes
                /\ Backend'["u1"].code = Backend["u1"].code
                /\ Backend'["u1"].previousCodes = Backend["u1"].previousCodes]_vars
    /\ [][event' = ModalReply("u1", "startAgain")
             => UNCHANGED <<pendingVerifications, redisPending, filePending>>]_vars

\* two submits of one code are in flight and the record holds that code
C8_Witness ==
    /\ submitting["u1"] = 2
    /\ event = Submitted("u1", h1)
    /\ pendingVerifications["u1"].username = h1
    /\ pendingVerifications["u1"].code = tempVerificationCodes["u1"].code
    /\ Backend["u1"] = pendingVerifications["u1"]

\* C9 as stated: once six codes have been issued after the first, the codes
\* the Matcher accepts for the record that holds the newest code are that code
\* and the five codes issued before it.
C9_AcceptsLastSix ==
    LET record == pendingVerifications["u1"]
    IN  (record.code = nextCode - 1 /\ record.code >= 7)
            => Accepted(record) = (record.code - 5)..record.code

\* the history of every record, pending or temporary
Histories ==
    {pendingVerifications[u].previousCodes : u \in Users}
        \cup {redisPending[u].previousCodes : u \in Users}
        \cup {filePending[u].previousCodes : u \in Users}
        \cup {tempVerificationCodes[u].previousCodes : u \in Users}

\* the record a verify_tiktok_start handler takes the history from
\* (index.js:1967-1970)
StartExisting(u) ==
    IF starting[u].pc = "lookup" THEN starting[u].record ELSE pendingVerifications[u]

\* C10: no history is ever longer than five codes, and a code issued to a
\* member whose history is full puts the replaced code first and drops the
\* last, oldest entry.
C10_HistoryBoundedFifo ==
    /\ [](\A history \in Histories : Len(history) <= HistoryLen)
    /\ [][(/\ starting["u1"].pc # "idle" /\ starting'["u1"].pc = "idle"
           /\ Len(StartExisting("u1").previousCodes) = HistoryLen)
             => /\ tempVerificationCodes'["u1"].code = starting["u1"].code
                /\ tempVerificationCodes'["u1"].previousCodes =
                       <<StartExisting("u1").code>>
                           \o SubSeq(StartExisting("u1").previousCodes, 1, HistoryLen - 1)]_vars

\* a code was issued over a full history: the stored record's oldest code is
\* gone from the new history, its other codes have moved down by one
C10_Witness ==
    LET stored == Backend["u1"]
        issued == tempVerificationCodes["u1"]
    IN  /\ Len(stored.previousCodes) = HistoryLen
        /\ Len(issued.previousCodes) = HistoryLen
        /\ issued.code > stored.code
        /\ issued.previousCodes[1] = stored.code
        /\ issued.previousCodes[HistoryLen] = stored.previousCodes[HistoryLen - 1]
        /\ \A k \in 1..HistoryLen :
              issued.previousCodes[k] # stored.previousCodes[HistoryLen]

ActsIn(u, g) ==
    \/ starting[u].pc = "idle" /\ starting'[u].guild = g
    \/ starting[u].guild = g /\ starting'[u] # starting[u]
    \/ /\ tempVerificationCodes[u].guildId = g
       /\ event'.kind \in {"submit", "modal"} /\ event'.user = u
    \/ \E i \in Instances :
          \/ check[u][i].guild = g /\ check'[u][i].pc # check[u][i].pc
          \/ check[u][i].pc = "idle" /\ check'[u][i].guild = g

\* C11 as stated: the pending record a member holds for one guild is not
\* replaced, modified or deleted by a step the same member runs from another
\* guild.
C11_OtherGuildKeepsRecord ==
    [][(pendingVerifications["u1"].guildId = "g1" /\ ActsIn("u1", "g2"))
          => /\ pendingVerifications'["u1"] = pendingVerifications["u1"]
             /\ Backend'["u1"] = Backend["u1"]]_vars

(***************************************************************************)
(* Properties of the fetch outcomes (Spec, SpecOps).                       *)
(***************************************************************************)
\* this step is handler i of u resuming from fetchTikTokBio (index.js:2083)
CheckFetched(u, i) ==
    /\ check[u][i].pc = "fetch"
    /\ fetched' # NoResult
    /\ \/ check'[u][i].pc # "fetch"
       \/ check'[u][i].attempt # check[u][i].attempt

\* this step is background run s resuming from fetchTikTokBio (index.js:926)
SweepFetched(s) ==
    /\ sweep[s].pc = "fetch"
    /\ fetched' # NoResult
    /\ \/ sweep'[s].pc # "fetch"
       \/ <<sweep'[s].idx, sweep'[s].round, sweep'[s].attempt>>
              # <<sweep[s].idx, sweep[s].round, sweep[s].attempt>>

\* transport error or timeout (index.js:813-816), HTTP status not ok
\* (index.js:719-722)
Unavailable(result) == result.kind \in {"null", "nobio"}

\* the replies of a check that ends without a match and without NotFound
NotYet == {Reply("u1", "pending"), Reply("u1", "emptyBio"), Reply("u1", "unreadable")}

\* C12 as stated: a fetch that is Unavailable does not end the check or the
\* background run's work on the entry: the next attempt of the budget is made,
\* or the budget is used up and the check ends non-terminally; the pending
\* record stays.
C12_UnavailableIsRetried ==
    [][/\ \A i \in Instances :
            (CheckFetched("u1", i) /\ Unavailable(fetched'))
                => /\ UNCHANGED <<pendingVerifications, redisPending, filePending>>
                   /\ IF check["u1"][i].attempt < maxAttempts
                      THEN /\ check'["u1"][i].pc = "fetch"
                           /\ check'["u1"][i].attempt = check["u1"][i].attempt + 1
                      ELSE /\ check'["u1"][i].pc = "reply"
                           /\ event' \in NotYet
       /\ (SweepFetched(1) /\ Unavailable(fetched'))
            => /\ UNCHANGED <<pendingVerifications, redisPending, filePending>>
               /\ \/ sweep[1].attempt = AttemptsPerRound /\ sweep[1].round = MaxRounds
                  \/ sweep'[1].pc = "fetch" /\ sweep'[1].idx = sweep[1].idx]_vars

\* C13 as stated: no step that resumes from a fetch classified Unavailable, be
\* it of a check, of a background run or of the operator's cleanup pass,
\* deletes or changes a pending record.
C13_UnavailableKeepsRecord ==
    [][Unavailable(fetched')
          => UNCHANGED <<pendingVerifications, redisPending, filePending>>]_vars

\* the fetch found the profile and no accepted code: an empty bio
\* (index.js:795-798) or a bio text without a code of the record
NoMatch(result, record) ==
    \/ result.kind = "empty"
    \/ result.kind = "bio" /\ result.bio \cap Accepted(record) = {}

\* the record of the entry background run s is working on
SweepRecord(s) == sweep[s].list[sweep[s].idx].record

\* C14: a fetch that yields an empty bio or a bio without an accepted code
\* changes no pending record in any field, creates no verified record and
\* grants no role; the check goes to its next attempt or, after the last one,
\* answers "pending" or "bio is empty" and ends without a change; the
\* background run goes to its next attempt or, the budget used up, to its
\* next entry.
C14_UnmatchedChangesNothing ==
    /\ [][(CheckFetched("u1", 1) /\ NoMatch(fetched', check["u1"][1].record))
             => /\ UNCHANGED <<pendingVerifications, redisPending, filePending,
                               verifiedUsers, memberRoles, granted>>
                /\ IF check["u1"][1].attempt < maxAttempts
                   THEN check'["u1"][1].pc = "fetch"
                   ELSE /\ check'["u1"][1].pc = "reply"
                        /\ event' \in {Reply("u1", "pending"), Reply("u1", "emptyBio")}]_vars
    /\ [][(check["u1"][1].pc = "reply" /\ check'["u1"][1].pc # "reply")
             => /\ check'["u1"][1].pc = "idle"
                /\ UNCHANGED <<pendingVerifications, redisPending, filePending,
                               verifiedUsers, memberRoles, granted>>]_vars
    /\ [][(SweepFetched(1) /\ NoMatch(fetched', SweepRecord(1)))
             => /\ UNCHANGED <<pendingVerifications, redisPending, filePending,
                               verifiedUsers, memberRoles, granted>>
                /\ IF sweep[1].attempt < AttemptsPerRound \/ sweep[1].round < MaxRounds
                   THEN sweep'[1].pc = "fetch" /\ sweep'[1].idx = sweep[1].idx
                   ELSE sweep'[1] = NextEntry(sweep[1])]_vars

\* the last attempt of a check has fetched a bio without an accepted code: the
\* check answers "pending", the record is where it was, nobody is verified
C14_Witness ==
    /\ check["u1"][1].pc = "reply"
    /\ check["u1"][1].attempt = maxAttempts
    /\ fetched.kind = "bio"
    /\ event = Reply("u1", "pending")
    /\ pendingVerifications["u1"] = check["u1"][1].record
    /\ Backend["u1"] = check["u1"][1].record
    /\ verifiedUsers = NoUsers
    /\ granted = {}

\* C15 as stated: when the guild has no verified role configured, a check or
\* a background run whose fetch matched creates no verified record, grants no
\* role and leaves the member's pending record in place.
C15_NoRoleKeepsRecord ==
    [][/\ event' = Reply("u1", "noRole")
            => /\ UNCHANGED <<verifiedUsers, memberRoles, granted>>
               /\ pendingVerifications'["u1"] # NoRecord
               /\ Backend'["u1"] # NoRecord
       /\ (/\ sweep[1].pc = "member" /\ sweep'[1].pc # "member"
           /\ SweepUser(1) = "u1"
           /\ ~guildConfigs[SweepRecord(1).guildId])
            => /\ UNCHANGED <<verifiedUsers, memberRoles, granted,
                              pendingVerifications, redisPending, filePending>>
               /\ sweep'[1] = NextEntry(sweep[1])]_vars

(***************************************************************************)
(* Properties of one background run (SpecSweep).                           *)
(***************************************************************************)
\* this step of background run s ends in one of its catch blocks: the fetch
\* returned null (index.js:1073), roles.add threw (index.js:1063), or the
\* member could not be fetched (index.js:1014-1018)
SweepFailed(s) ==
    \/ event'.kind = "log" /\ event'.text \in {"checkError", "verifyError"}
    \/ /\ sweep[s].pc = "member" /\ sweep'[s].pc \notin {"member", "grant"}
       /\ guildConfigs[SweepRecord(s).guildId]

\* C16: a failure while a background run works on one entry ends the work on
\* that entry only: the run goes on with the next entry of its list, it ends
\* only after the last entry, and it takes the entries one by one, in order.
C16_FailureKeepsSweepGoing ==
    /\ [][(sweep[1].pc # "idle" /\ SweepFailed(1))
             => /\ sweep'[1] = NextEntry(sweep[1])
                /\ sweep[1].idx < Len(sweep[1].list)
                       => sweep'[1].pc = "fetch" /\ sweep'[1].idx = sweep[1].idx + 1]_vars
    /\ [][(sweep[1].pc # "idle" /\ sweep'[1].pc = "idle")
             => sweep[1].idx = Len(sweep[1].list)]_vars
    /\ [][(sweep[1].pc # "idle" /\ sweep'[1].pc # "idle")
             => /\ sweep'[1].idx \in {sweep[1].idx, sweep[1].idx + 1}
                /\ sweep'[1].idx = sweep[1].idx + 1 => sweep'[1].pc = "fetch"
                /\ Len(sweep'[1].list) = Len(sweep[1].list)
                /\ \A k \in DOMAIN sweep[1].list :
                      sweep'[1].list[k].user = sweep[1].list[k].user]_vars

\* the fetch of the first of two entries has thrown and the run is fetching
\* for the second
C16_Witness ==
    /\ sweep[1].pc = "fetch"
    /\ Len(sweep[1].list) = 2
    /\ sweep[1].idx = 2
    /\ event = Log(sweep[1].list[1].user, "checkError")
    /\ fetched.kind = "null"

(***************************************************************************)
(* Properties of the scheduler (SpecTimer).                                *)
(***************************************************************************)
\* the background runs that have not ended
Running == {s \in Sweeps : sweep[s].pc # "idle"}

\* C17 as stated: at any time at most one background run is working on an
\* entry and at most one background fetch is in flight, also when the timer
\* fires before the run before has ended.
C17_OneSweepAtATime ==
    /\ Cardinality(Running) <= 1
    /\ Cardinality({s \in Sweeps : sweep[s].pc = "fetch"}) <= 1

(***************************************************************************)
(* Termination of a background run (SpecSweep).                            *)
(***************************************************************************)
\* the number of the fetch background run s is making for its entry
\* (index.js:926)
AttemptNum(sw) == (sw.round - 1) * AttemptsPerRound + sw.attempt

\* C18: a background run makes at most MaxRounds * AttemptsPerRound fetches
\* for an entry, one after the other; a NotFound ends the fetching for the
\* entry and takes the run to the next entry, a match ends the fetching and
\* no fetch for the entry follows; an entry whose budget is used up without a
\* match keeps its pending record and the run goes to the next entry; every
\* run ends.
C18_SweepTerminates ==
    /\ [](sweep[1].pc = "fetch"
            => AttemptNum(sweep[1]) \in 1..(MaxRounds * AttemptsPerRound))
    /\ [][SweepFetched(1)
             => IF fetched'.kind \in {"notFound", "null"}
                THEN sweep'[1] = NextEntry(sweep[1])
                ELSE IF fetched'.kind = "bio"
                        /\ fetched'.bio \cap Accepted(SweepRecord(1)) # {}
                THEN sweep'[1].pc = "member" /\ sweep'[1].idx = sweep[1].idx
                ELSE IF AttemptNum(sweep[1]) < MaxRounds * AttemptsPerRound
                THEN /\ sweep'[1].pc = "fetch" /\ sweep'[1].idx = sweep[1].idx
                     /\ AttemptNum(sweep'[1]) = AttemptNum(sweep[1]) + 1
                ELSE /\ sweep'[1].pc = "idle" \/ sweep'[1].idx = sweep[1].idx + 1
                     /\ UNCHANGED <<pendingVerifications, redisPending, filePending>>]_vars
    /\ [][(sweep[1].pc \in {"member", "grant", "save", "delete"}
              /\ sweep'[1].pc = "fetch")
             => sweep'[1].idx = sweep[1].idx + 1]_vars
    /\ (sweep[1].pc # "idle") ~> (sweep[1].pc = "idle")

\* the run has used up the budget of its first entry without a match, the
\* member still has the pending record, and the run is at its second entry
C18_Witness ==
    /\ sweep[1].pc = "fetch"
    /\ sweep[1].idx = 2
    /\ AttemptNum(sweep[1]) = 1
    /\ fetched.kind \in {"nobio", "empty", "bio"}
    /\ event = NoEvent
    /\ pendingVerifications[sweep[1].list[1].user] = sweep[1].list[1].record

(***************************************************************************)
(* Properties of one foreground check (SpecFetch).                         *)
(***************************************************************************)
\* the handler is between deferReply and its last editReply
InCheck(c) == c.pc \in {"fetch", "member", "grant", "save"}

\* the results a check reports: verified, still pending (with its variants
\* "bio is empty" and "profile not readable"), account not found
CheckResults ==
    {Reply("u1", "verified"), Reply("u1", "notFound")} \cup NotYet

\* C19 as stated: a check makes at most three fetches, makes no fetch after
\* a match or a NotFound, and ends by reporting verified, still pending or a
\* terminal failure.
C19_CheckEndsWithResult ==
    [][/\ check'["u1"][1].attempt <= maxAttempts
       /\ (/\ CheckFetched("u1", 1)
           /\ \/ fetched'.kind = "notFound"
              \/ fetched'.bio \cap Accepted(check["u1"][1].record) # {})
            => check'["u1"][1].pc \in {"member", "reply"}
       /\ (check["u1"][1].pc \in {"member", "grant", "save", "reply"})
            => check'["u1"][1].pc # "fetch"
       /\ (InCheck(check["u1"][1]) /\ ~InCheck(check'["u1"][1]))
            => /\ check'["u1"][1].pc = "reply"
               /\ event' \in CheckResults]_vars

(***************************************************************************)
(* Properties of the role-removed event (SpecOps).                         *)
(***************************************************************************)
\* C20 as stated: when the verified role is taken from a member, the member's
\* verified record is removed and the member has no pending record any more,
\* neither in memory nor in the durable store.
C20_RoleRemovedClearsAll ==
    [][("u1" \in memberRoles["g1"] /\ "u1" \notin memberRoles'["g1"])
          => /\ verifiedUsers'["g1"]["u1"] = NoHandle
             /\ pendingVerifications'["u1"] = NoRecord
             /\ Backend'["u1"] = NoRecord]_vars

(***************************************************************************)
(* Properties of the link modal (SpecModal).                               *)
(***************************************************************************)
\* a handle of the form ^[A-Za-z0-9_.]{2,24}$
HandlePattern(handle) ==
    /\ \A k \in 1..Len(handle) : handle[k] \in WordPieces
    /\ TextLength(handle) \in 2..24

\* the handle the text typed into the modal of member u normalizes to
Normalized(u) == ParseUsername(Trim(modal[u].input))

\* C21: a submitted text that does not normalize to a handle of the form
\* ^[A-Za-z0-9_.]{2,24}$ is rejected in the step that receives it: the handler
\* ends with a reply, no request is sent for it and no pending record is
\* created or changed; a handler sends a request only for a handle of that
\* form, and every pending record a submit has stored holds such a handle.
C21_InvalidHandleRejected ==
    /\ [][(modal["u1"].pc = "typed" /\ modal'["u1"] # modal["u1"]
              /\ ~HandlePattern(Normalized("u1")))
             => /\ modal'["u1"] = IdleModal
                /\ event' \in {ModalReply("u1", "empty"),
                               ModalReply("u1", "invalidFormat")}
                /\ UNCHANGED <<pendingVerifications, redisPending, filePending>>]_vars
    /\ [](modal["u1"].pc \in {"defer", "exists", "similar"}
            => /\ HandlePattern(modal["u1"].username)
               /\ modal["u1"].username = Normalized("u1"))
    /\ [](\A store \in {pendingVerifications, redisPending, filePending} :
            store["u1"] # NoRecord => HandlePattern(store["u1"].username))

\* a text has been rejected for its format while the member holds the record
\* of an earlier submit and a new code
C21_Witness ==
    /\ event = ModalReply("u1", "invalidFormat")
    /\ modal["u1"] = IdleModal
    /\ pendingVerifications["u1"].username = EarlierRecord.username
    /\ tempVerificationCodes["u1"] # NoTemp

(***************************************************************************)
(* Properties of the matcher (SpecMatcher).                                *)
(***************************************************************************)
\* the same letters, whatever their case
SameLetters(piece, other) ==
    \/ piece = other
    \/ {piece, other} \in {{"JAIME", "jaime"}, {"JAMIE", "jamie"}, {"x", "X"}}

\* text occurs in the bio, whatever the case of the letters
OccursIn(bio, text) ==
    \E i \in 0..(Len(bio) - Len(text)) :
        \A k \in 1..Len(text) : SameLetters(bio[i + k], text[k])

\* the code typed with JAMIE in the place of JAIME
Mistyped(code) ==
    [k \in 1..Len(code) |-> IF k = 1 /\ SameLetters(code[k], "JAIME")
                             THEN "JAMIE" ELSE code[k]]

\* the code in lower case
LowerCased(code) ==
    [k \in 1..Len(code) |->
        CASE code[k] = "JAIME" -> "jaime" [] code[k] = "JAMIE" -> "jamie"
          [] OTHER -> code[k]]

\* the candidates that the bio shows, as typed or mistyped
Qualifying(bio, allCodes) ==
    {k \in 1..Len(allCodes) :
        OccursIn(bio, allCodes[k]) \/ OccursIn(bio, Mistyped(allCodes[k]))}

\* C22: the matcher returns the first candidate, in the order current code
\* then history, that occurs in the bio whatever the case, as issued or with
\* JAMIE typed for JAIME, and none when no candidate does; a bio that holds a
\* candidate in lower case, or mistyped, is matched.
C22_FirstCandidateWins ==
    callResult # <<>> =>
        LET bio == callArgs.bio
            allCodes == callArgs.allCodes
            matchedCode == callResult[1]
        IN  /\ matchedCode =
                  IF Qualifying(bio, allCodes) = {} THEN <<>>
                  ELSE allCodes[Min(Qualifying(bio, allCodes))]
            /\ \A k \in 1..Len(allCodes) :
                  (Includes(bio, LowerCased(allCodes[k]))
                       \/ Includes(bio, Mistyped(allCodes[k])))
                    => matchedCode # <<>>

\* the bio holds the second candidate only, mistyped and in lower case, and
\* the matcher has returned that candidate
C22_Witness ==
    /\ callArgs.bio = <<"x", "jamie", "-1">>
    /\ callArgs.allCodes = <<(<<"JAIME", "-2">>), (<<"JAIME", "-1">>)>>
    /\ callResult = <<(<<"JAIME", "-1">>)>>

(***************************************************************************)
(* Properties of the generated codes (SpecGenerate).                       *)
(***************************************************************************)
\* the characters of the name before its first white space
BeforeSpace(name) ==
    LET chars == Characters(name)
    IN  IF \E k \in 1..Len(chars) : chars[k] = " "
        THEN SubSeq(chars, 1, (CHOOSE k \in 1..Len(chars) :
                                  /\ chars[k] = " "
                                  /\ \A j \in 1..(k - 1) : chars[j] # " ") - 1)
        ELSE chars

\* C23: a generated code is PREFIX-NNNNN with 10000 <= NNNNN <= 99999 and
\* with PREFIX a non-empty string of at most 10 upper-case letters and digits,
\* which is VERIFY when the first token of the name has no letter and no digit.
C23_CodeForm ==
    callResult # <<>> =>
        LET code == callResult[1]
        IN  /\ code.num \in 10000..99999
            /\ Len(code.prefix) \in 1..10
            /\ \A k \in 1..Len(code.prefix) :
                  code.prefix[k] \in {"A", "B", "7", "V", "E", "R", "I", "F", "Y"}
            /\ (\A k \in 1..Len(BeforeSpace(callArgs.name)) :
                   BeforeSpace(callArgs.name)[k] \notin {"a", "B", "7"})
                  => code.prefix = <<"V", "E", "R", "I", "F", "Y">>

\* a name of 18 letters and the largest value of Math.random() have given a
\* code with a prefix of 10 letters and a number close to 99999
C23_Witness ==
    /\ callArgs.name = <<"a9", "a9">>
    /\ callArgs.random = RandomSteps - 1
    /\ callResult # <<>>
    /\ Len(callResult[1].prefix) = 10
    /\ callResult[1].num > 99990

(***************************************************************************)
(* Properties of the code prefix (SpecPrefix).                             *)
(***************************************************************************)
\* C24 as stated: all codes generated for one guild carry the same prefix,
\* also when several starts for the guild run at once before the cache is
\* filled and the owner's name cannot be fetched for some of them.
C24_OnePrefixPerGuild ==
    \A g \in Guilds : Cardinality(issuedPrefixes[g]) <= 1

(***************************************************************************)
(* Properties of the stores (SpecStore).                                   *)
(***************************************************************************)
\* the record a read finds when it takes Redis first and the file for a key
\* that Redis does not hold
PreferredRead(u) ==
    IF redisPending[u] # NoRecord THEN redisPending[u] ELSE filePending[u]

\* C25 as stated: with Redis configured, a record that only the file holds
\* is found by the check button's lookup, which does not answer that there
\* is no pending verification, and is held in memory, where the background
\* run takes its entries, once the process has loaded its records.
C25_FileRecordIsRead ==
    [][\A u \in Users :
          (redis /\ redisPending[u] = NoRecord /\ filePending[u] # NoRecord)
          => /\ event' # Reply(u, "noRecord")
             /\ event' = Log("none", "restart")
                  => pendingVerifications'[u] = PreferredRead(u)]_vars

\* C26 as stated: when the submit handler has stored a record, also when the
\* write to Redis has failed, Redis or the file holds the record.
C26_FailedWriteGoesToFile ==
    [][\A u \in Users :
          event' = Submitted(u, h1)
          => \/ redis /\ redisPending'[u] = pendingVerifications'[u]
             \/ filePending'[u] = pendingVerifications'[u]]_vars

(***************************************************************************)
(* Properties of the stored form (SpecRoundTrip).                          *)
(***************************************************************************)
RecordFields == {"username", "code", "previousCodes", "guildId", "createdAt"}

\* C27: a pending record that is saved to Redis and read back, or saved to
\* the file and loaded by a new process when Redis is not configured, has
\* the same handle, code, code history, guild and creation time as before.
C27_RoundTrip ==
    callResult # <<>>
    => \A field \in RecordFields :
          Get(callResult[1], field) = Get(MapGet(callArgs.memory, "u1"), field)

\* a record with a code history and a creation time has been read back from
\* a file that holds another member's record too
C27_Witness ==
    /\ callResult # <<>>
    /\ ~callArgs.redis
    /\ Len(callArgs.memory) = 2
    /\ Get(callResult[1], "previousCodes") = Arr(<<Str(1)>>)
    /\ Get(callResult[1], "createdAt") = Num(MaxTime)

(***************************************************************************)
(* Properties of the classification of a profile page (SpecPayload).       *)
(***************************************************************************)
\* the page carries the status of a profile that does not exist
HasSentinel(html) ==
    \E i \in DOMAIN html :
        /\ html[i] = [part |-> "status", signature |-> "10221"]
        /\ \A j \in 1..(i - 1) : html[j].part # "status"

\* the text each strategy yields, "" when it yields none: the signature of
\* the first script of its kind, or for the scan the first signature of the
\* page and else the first one of a userInfo object
Yield(html, strategy) ==
    LET kinds == IF strategy = 3 THEN {"rehydration", "sigi", "field", "userInfo"}
                 ELSE IF strategy = 1 THEN {"rehydration"} ELSE {"sigi"}
        at == {i \in DOMAIN html :
                  /\ html[i].part \in kinds
                  /\ strategy = 3 => html[i].signature # NoSignature}
        first == IF at = {} THEN "" ELSE html[Min(at)].signature
        inUserInfo == {i \in DOMAIN html : html[i].part = "userInfo"}
    IN  IF first \notin {"", NoSignature} THEN first
        ELSE IF strategy = 3 /\ inUserInfo # {}
        THEN html[Min(inUserInfo)].signature
        ELSE ""

\* C28: a page that carries the not-found status is classified as not
\* found whatever else it holds; any other page gives the unescaped text of
\* the first of the strategies rehydration script, SIGI_STATE script, scan
\* that yields a text; a page where none does is classified as an empty bio
\* when it holds an empty signature, and as no bio (retryable) otherwise.
\* The result is exactly one of the four.
C28_Classification ==
    callResult # <<>>
    => LET html == callArgs
           result == callResult[1]
           yielding == {k \in 1..3 : Yield(html, k) # ""}
           NotFound == [bio |-> NoSignature, accountNotFound |-> TRUE,
                        emptyBio |-> FALSE]
           Empty == [bio |-> "", accountNotFound |-> FALSE, emptyBio |-> TRUE]
           NoBio == [bio |-> NoSignature, accountNotFound |-> FALSE,
                     emptyBio |-> FALSE]
           Found(text) == [bio |-> text, accountNotFound |-> FALSE,
                           emptyBio |-> FALSE]
       IN  IF HasSentinel(html) THEN result = NotFound
           ELSE IF yielding # {}
           THEN /\ result = Found(Unescape(Yield(html, Min(yielding))))
                /\ result \notin {NotFound, Empty, NoBio}
           ELSE IF \E i \in DOMAIN html : html[i].signature = ""
           THEN result = Empty
           ELSE result = NoBio

\* a page whose SIGI_STATE script comes first and holds a text, whose
\* rehydration script holds another one, has been classified
C28_Witness ==
    /\ callResult # <<>>
    /\ Len(callArgs) = 3
    /\ callArgs[1] = [part |-> "status", signature |-> "0"]
    /\ callArgs[2] = [part |-> "sigi", signature |-> "bio"]
    /\ callArgs[3] = [part |-> "rehydration", signature |-> "escaped"]
    /\ callResult[1].bio = "unescaped"

(***************************************************************************)
(* Properties of the verified list (SpecWriters).                          *)
(***************************************************************************)
\* the steps of a check or a run that follow a match
AfterMatch == {"member", "grant", "save"}

\* the step gives member u of guild g a verified record, or another one
WritesVerified(g, u) ==
    /\ verifiedUsers'[g][u] # NoHandle
    /\ verifiedUsers'[g][u] # verifiedUsers[g][u]

EntriesOf(g, u) == {i \in DOMAIN verifiedList[g] : verifiedList[g][i].discordId = u}

\* C30 as stated: after any verifications, also ones that complete at the
\* same time, the verified list of a guild holds at most one entry for each
\* member, and the entry carries the handle of the verification of the
\* member that was completed last.
C30_OneEntryLatestHandle ==
    \A g \in Guilds, u \in Users :
        /\ Cardinality(EntriesOf(g, u)) <= 1
        /\ \A i \in EntriesOf(g, u) :
              verifiedList[g][i].tiktokUsername = lastAdded[g][u]

(***************************************************************************)
(* Properties of /manual-verify (SpecOps).                                 *)
(***************************************************************************)
\* C31 as stated: /manual-verify fetches no profile, and when it has ended
\* the member has a verified record with the handle given and no pending
\* record, neither in memory nor in the durable store in use.
C31_ManualVerifyClearsPending ==
    [][manual_verify("u1", h1, "g1")
          => /\ fetched' = NoResult
             /\ verifiedUsers'["g1"]["u1"] = h1
             /\ pendingVerifications'["u1"] = NoRecord
             /\ Backend'["u1"] = NoRecord]_vars

(***************************************************************************)
(* Properties of the start button and the stored record (SpecCodes).       *)
(***************************************************************************)
\* C32 as stated: the step of the start button that puts the new code into
\* the temporary store leaves the pending record of the member as it was,
\* code and history, in memory and in the durable store.
C32_StartLeavesRecord ==
    [][\A u \in Users :
          (tempVerificationCodes'[u] # tempVerificationCodes[u]
              /\ tempVerificationCodes'[u] # NoTemp)
          => /\ pendingVerifications'[u] = pendingVerifications[u]
             /\ Backend'[u] = Backend[u]]_vars

\* the codes of a history are all different and the code is not among them
CleanHistory(record) ==
    /\ \A k, l \in DOMAIN record.previousCodes :
          k # l => record.previousCodes[k] # record.previousCodes[l]
    /\ \A k \in DOMAIN record.previousCodes : record.previousCodes[k] # record.code

\* C33 as stated: after any starts and submits of a member, the history of
\* the member's pending record, in memory and in the durable store, holds no
\* code twice and does not hold the record's own code.
C33_HistoryHasNoDuplicates ==
    \A u \in Users :
        /\ CleanHistory(pendingVerifications[u])
        /\ CleanHistory(Backend[u])

(***************************************************************************)
(* Properties of concurrent saves of the verified list (SpecVerified).     *)
(***************************************************************************)
\* C34 as stated: when the calls of addVerifiedUser for the members of a
\* guild have ended, also calls that ran at the same time, the verified list
\* of the guild holds an entry for every member a call has saved.
C34_BothRecordsPresent ==
    (\A c \in Instances : adding[c].pc = "idle")
        => \A g \in Guilds, u \in Users :
              lastAdded[g][u] # NoHandle => EntriesOf(g, u) # {}

(***************************************************************************)
(* Properties of the background run's copy of the records (Spec)           *)
(***************************************************************************)
\* C35 as stated: when the background run grants the role for a member, the
\* member still has a pending record with the same handle as the entry the run
\* took from its list; a record that was deleted or replaced since the list was
\* taken is not acted upon.
C35_SweepGrantNeedsCurrentRecord ==
    [][sweep_grant_got(1, TRUE)
          => /\ pendingVerifications[SweepUser(1)] # NoRecord
             /\ pendingVerifications[SweepUser(1)].username
                    = SweepRecord(1).username]_vars

(***************************************************************************)
(* Properties of a handle submitted during a check (Spec)                  *)
(***************************************************************************)
\* the member has a check handler between its guard and its last reply
CheckInProgress(u) ==
    \E i \in Instances :
        check[u][i].pc \in {"defer", "fetch", "member", "grant", "save", "reply"}

\* the record new is the submission old: same handle, same code
SameSubmission(old, new) ==
    /\ old # NoRecord
    /\ new.username = old.username
    /\ new.code = old.code

\* C36 as stated: while a check is in progress for a member, no step stores a
\* new submission for that member; the pending record keeps its handle and its
\* code, or is deleted.
C36_NoStoreDuringCheck ==
    [][\A u \in Users :
          (CheckInProgress(u) /\ pendingVerifications'[u] # NoRecord)
              => SameSubmission(pendingVerifications[u],
                                pendingVerifications'[u])]_vars

(***************************************************************************)
(* Properties of a check that fails after the match (Spec)                 *)
(***************************************************************************)
\* the step ends a check handler of u in the catch block after the match: the
\* member lookup or the role grant has thrown
CheckFailsAfterMatch(u) ==
    \E i \in Instances :
        /\ check[u][i].pc \in {"member", "grant"}
        /\ check'[u][i].pc = "idle"

\* the step is the role grant of the background run throwing for u
SweepFailsAfterMatch(u) ==
    /\ sweep[1].pc = "grant"
    /\ SweepUser(1) = u
    /\ event' = Log(u, "verifyError")

\* C37 as stated: when the member lookup or the role grant throws after the
\* code was matched, in a check or in a background run, the member's pending
\* record is still present afterwards, in memory and in the backend.
C37_FailedGrantKeepsPending ==
    [][\A u \in Users :
          (CheckFailsAfterMatch(u) \/ SweepFailsAfterMatch(u))
              => /\ pendingVerifications'[u] # NoRecord
                 /\ Backend'[u] # NoRecord]_vars

(***************************************************************************)
(* Properties of the order of grant and verified record (Spec)             *)
(***************************************************************************)
\* C38: a check or a background run writes a verified record only from its
\* save step, that step is entered only by the step in which member.roles.add
\* succeeded for the same member in the same handler, and so every member with
\* a verified record holds the role; a failed or skipped grant writes none.
C38_RecordOnlyAfterGrant ==
    /\ [][\A g \in Guilds, u \in Users :
            WritesVerified(g, u)
            => \/ \E i \in Instances :
                    check[u][i].pc = "save" /\ check[u][i].guild = g
               \/ \E s \in Sweeps :
                    /\ sweep[s].pc = "save"
                    /\ SweepUser(s) = u
                    /\ SweepRecord(s).guildId = g]_vars
    /\ [][\A u \in Users, i \in Instances :
            (check'[u][i].pc = "save" /\ check[u][i].pc # "save")
            => /\ check[u][i].pc = "grant"
               /\ event' = Grant(u, "check")
               /\ u \in memberRoles'[check[u][i].guild]]_vars
    /\ [][\A s \in Sweeps :
            (sweep'[s].pc = "save" /\ sweep[s].pc # "save")
            => /\ sweep[s].pc = "grant"
               /\ event' = Grant(SweepUser(s), "sweep")
               /\ SweepUser(s) \in memberRoles'[SweepRecord(s).guildId]]_vars
    /\ [](\A g \in Guilds, u \in Users :
            verifiedUsers[g][u] # NoHandle => u \in memberRoles[g])

\* a check of u1 has granted the role and then saved the verified record
C38_Witness ==
    /\ event = Reply("u1", "verified")
    /\ verifiedUsers["g1"]["u1"] = h1
    /\ "u1" \in memberRoles["g1"]
    /\ "u1" \in granted

(***************************************************************************)
(* Properties of the deletions in the backend (Spec)                       *)
(***************************************************************************)
\* C39 as stated: every step that deletes a member's pending record from the
\* map also deletes it from the backend in use, so that a restart or the
\* synchronisation of the next background run finds no record to bring back.
C39_DeletionReachesBackend ==
    [][\A u \in Users :
          (pendingVerifications[u] # NoRecord /\ pendingVerifications'[u] = NoRecord)
              => Backend'[u] = NoRecord]_vars

====
